---- MODULE Spec2Model ----
(***************************************************************************)
(* Event ticketing platform: the seat inventory (Events, Bookings), the    *)
(* booking engine's reserve / cancel protocol over a key-value store with  *)
(* atomic conditional updates, the admin event catalog, and the            *)
(* orchestrator that drives the booking -> payment-intent -> notification  *)
(* saga against the booking engine, its generic proxy, the worker that     *)
(* consumes queued booking requests and records their status, the status   *)
(* polling route, and the payment service (create, verify, refund).        *)
(*                                                                         *)
(* Every store operation is one atomic step; a request handler is a        *)
(* sequence of such steps, and handlers of different requests interleave.  *)
(***************************************************************************)
EXTENDS Integers, Sequences, FiniteSets, TLC

\* ------------------------------------------------------------------ bounds

\* Number of concurrent client requests (each client issues one request to
\* the booking engine).
NumClients == 2
\* Largest seat count of an event, and largest ticket count of a request.
MaxSeats == 2
\* Number of admin catalog writes (create / update / delete) in one behaviour.
MaxAdminOps == 1
\* Number of requests to the orchestrator's saga routes in one behaviour.
NumSagas == 1
\* Number of requests sent to the message queue in one behaviour.
NumMessages == 2
\* Number of payment intents created by direct calls of the payment service.
NumIntents == 2

\* ------------------------------------------------------------------ inputs

Clients == 1..NumClients

\* Event ids: "1" is an event of the fixtures, "999" the id the tests use for
\* an event that does not exist (an admin may create it).
EventIds == {"1", "999"}

\* A booking id is generated per reserve request and never reused: the id of
\* the request that generated it. Id 0 is the Booking of a reserve that
\* finished before the behaviour starts.
BookingIds == 0..NumClients

\* The reserve requests: the well-formed ones (seat_numbers a list or absent),
\* and the three malformed requests of the tests: seat_numbers a string,
\* user_id missing (""), num_tickets = 0.
BookInputs ==
    [event_id : EventIds, num_tickets : 1..MaxSeats, user_id : {"user-123"},
     seat_numbers : {"list"}]
    \cup {[event_id |-> "1", num_tickets |-> 1, user_id |-> "user-invalid-seats",
           seat_numbers |-> "scalar"],
          [event_id |-> "1", num_tickets |-> 2, user_id |-> "",
           seat_numbers |-> "list"],
          [event_id |-> "1", num_tickets |-> 0, user_id |-> "user-123",
           seat_numbers |-> "list"]}

\* total_seats an admin sends: the admin routes accept any JSON number.
SeatInputs == (0 - 1)..MaxSeats

\* The requests to the orchestrator's saga routes.
Sagas == 1..NumSagas

\* ------------------------------------------------------------------ state

VARIABLES
    events,        \* the Events store: event_id -> total_seats (present keys only)
    bookings,      \* the Bookings store: booking_id -> Booking (present keys only)
    pc,            \* per client: the handler's position
    req,           \* per client: the request it issued
    local,         \* per client: the handler's local variables
    resp,          \* per client: the response returned
    hist,          \* history: per client, what the handler observed and wrote
    writes,        \* history: per event id, the number of writes to that key
    initial_seats, \* history: the Events store at the start
    capacity,      \* history: per event, total_seats before any of its Bookings
    admin_ops,     \* number of admin catalog calls made
    verifier,      \* orchestrator: whether identity verification is configured
    opc,           \* per saga: the orchestrator handler's position
    oreq,          \* per saga: the request it received
    olocal,        \* per saga: the handler's local variables and the calls it made
    oresp,         \* per saga: the response returned
    stripe_intents, \* the payment intents created at the payment processor
    proxy_req,     \* generic proxy: the last request
    proxy_resp,    \* generic proxy: the response to it
    proxy_call,    \* generic proxy: the downstream call made for it
    queue,         \* the message queue: the messages sent and not deleted, in order
    next_request_id, \* the request id the next queued request gets
    wpc,           \* worker: its position
    wbatch,        \* worker: the received messages not yet handled, current one first
    wlocal,        \* worker: the local variables of process_booking
    status_table,  \* the Status Tracker: request_id -> record (present keys only)
    origin,        \* history: per client, the queued request it was issued for (0: none)
    completed_requests, \* history: the requests whose message was deleted after success
    sent,          \* history: the messages sent to the queue, in order
    path_in,       \* path comparison: the request and the downstream answers
    path_sync,     \* path comparison: what the synchronous path sent and returned
    path_worker,   \* path comparison: what the worker sent and returned
    poll_resp,     \* status polling: the last answer of check_booking_status
    payments,      \* payment service: the items of the payments table
    succeeded,     \* payment processor: the intents it reports as succeeded
    refunds,       \* payment processor: the refunds created
    pay_resp,      \* payment service: the last response
    admin_resp,    \* admin event service: the last request and its response
    deleted_events \* admin event service: the event ids deleted so far

\* The state of the synchronous orchestrator and of the payment processor.
orchVars == <<verifier, opc, oreq, olocal, oresp, stripe_intents>>

\* The state of the generic proxy.
proxyVars == <<proxy_req, proxy_resp, proxy_call>>

\* The state of the queue, the worker and the Status Tracker.
workerVars == <<queue, next_request_id, wpc, wbatch, wlocal, status_table, origin,
                completed_requests, sent>>

\* The state of the inventory, the booking engine and the admin catalog.
engineVars == <<events, bookings, pc, req, local, resp, hist, writes, initial_seats,
                capacity, admin_ops>>

\* The state of the comparison of the synchronous and the queued path.
pathVars == <<path_in, path_sync, path_worker>>

\* The state of the components that share no action with the booking
\* engine, the saga routes, the proxy and the worker.
\* The state of the payment service and of the processor, apart from the
\* list of intents.
payVars == <<payments, succeeded, refunds, pay_resp>>

\* The state of the admin event service besides the events.
adminVars == <<admin_resp, deleted_events>>

auxVars == <<pathVars, poll_resp, payVars, adminVars>>

\* The state of the services other than the saga routes.
otherServiceVars == <<proxyVars, workerVars, auxVars>>

\* The state outside the inventory and the booking engine.
serviceVars == <<orchVars, proxyVars, workerVars, auxVars>>

vars == <<events, bookings, pc, req, local, resp, hist, writes, initial_seats, capacity,
          admin_ops, verifier, opc, oreq, olocal, oresp, stripe_intents,
          proxy_req, proxy_resp, proxy_call, queue, next_request_id, wpc, wbatch, wlocal,
          status_table, origin, completed_requests, sent, path_in, path_sync,
          path_worker, poll_resp, payments, succeeded, refunds, pay_resp, admin_resp,
          deleted_events>>

NoRequest == [op |-> "none", event_id |-> "", num_tickets |-> 0, user_id |-> "",
              seat_numbers |-> "list", booking_id |-> -1]

NoBooking == [booking_id |-> -1, user_id |-> "", event_id |-> "", num_tickets |-> 0]

NoLocal == [remaining_seats |-> 0, booking |-> NoBooking, updated_total_seats |-> 0]

NoResp == [status |-> 0]

NoHist == [refused |-> FALSE, refused_present |-> FALSE, refused_seats |-> 0,
           decremented |-> FALSE, seats_before |-> 0, write_no |-> 0,
           incremented |-> FALSE, prev_write_no |-> 0]

NoOrchRequest == [route |-> "none", event_id |-> "", num_tickets |-> 0, user_id |-> "",
                  token |-> "none", missing |-> FALSE]

\* client: the booking-engine request the saga issued (0: none); pay_called:
\* a create-intent call was made; payment_id: the intent created (0: none);
\* notified: the notification calls made.
NoOrchLocal == [user_id |-> "", client |-> 0, booking_id |-> -1, pay_called |-> FALSE,
                payment_id |-> 0, notified |-> {}]

NoOrchResp == [status |-> 0]

NoProxyRequest == [service |-> "", endpoint |-> <<>>, token |-> "none", forged |-> FALSE]

NoProxyCall == [made |-> FALSE, service |-> "", path |-> <<>>, user_id |-> "", headers |-> {}]

\* No request to the admin event service has been answered.
NoAdminResponse == [route |-> "none", event_id |-> "", auth |-> <<>>, status |-> 0]

\* No status poll has been answered.
NoPoll == [code |-> 0]

\* No request has been given to the two paths.
NoPathInput == [given |-> FALSE]

\* A path has not run.
NoPathResult == [done |-> FALSE]

\* The data of a status record without result.
NoData == [booking_id |-> -1, payment_id |-> 0]

\* client: the booking-engine request the worker issued (0: none); result:
\* what process_booking returns.
NoWorkerLocal == [client |-> 0,
                  result |-> [success |-> FALSE, error |-> "", booking_id |-> -1,
                              payment_id |-> 0]]

\* ------------------------------------------------------------------ store

\* get(key): whether the item is present.
Present(table, key) == key \in DOMAIN table

\* put(item) on a table keyed by key.
Put(table, key, item) == [k \in DOMAIN table \cup {key} |-> IF k = key THEN item ELSE table[k]]

\* delete(key): deleting an absent key changes nothing.
Delete(table, key) == [k \in DOMAIN table \ {key} |-> table[k]]

\* The Booking of an earlier reserve of k tickets for event "1".
EarlierBooking(k) ==
    [booking_id |-> 0, user_id |-> "user-abc-123", event_id |-> "1", num_tickets |-> k]

\* The stores at the start: event "1" with some seats left, event "999" absent,
\* and either no Booking or the Booking of one earlier reserve on event "1"
\* (whose tickets are already off total_seats).
Init ==
    /\ events \in [{"1"} -> 0..MaxSeats]
    /\ \/ bookings = [b \in {} |-> NoBooking]
       \/ \E k \in 1..MaxSeats :
             /\ events["1"] + k <= MaxSeats
             /\ bookings = [b \in {0} |-> EarlierBooking(k)]
    /\ capacity = [e \in DOMAIN events |->
                     events[e] + (IF Present(bookings, 0) THEN bookings[0].num_tickets ELSE 0)]
    /\ pc = [c \in Clients |-> "idle"]
    /\ req = [c \in Clients |-> NoRequest]
    /\ local = [c \in Clients |-> NoLocal]
    /\ resp = [c \in Clients |-> NoResp]
    /\ hist = [c \in Clients |-> NoHist]
    /\ writes = [e \in EventIds |-> 0]
    /\ initial_seats = events
    /\ admin_ops = 0
    /\ verifier \in BOOLEAN
    /\ opc = [s \in Sagas |-> "idle"]
    /\ oreq = [s \in Sagas |-> NoOrchRequest]
    /\ olocal = [s \in Sagas |-> NoOrchLocal]
    /\ oresp = [s \in Sagas |-> NoOrchResp]
    /\ stripe_intents = {}
    /\ proxy_req = NoProxyRequest
    /\ proxy_resp = [status |-> 0, success |-> FALSE]
    /\ proxy_call = NoProxyCall
    /\ queue = <<>>
    /\ next_request_id = 1
    /\ wpc = "poll"
    /\ wbatch = <<>>
    /\ wlocal = NoWorkerLocal
    /\ status_table = [r \in {} |-> [status |-> "", data |-> NoData, error |-> ""]]
    /\ origin = [c \in Clients |-> 0]
    /\ completed_requests = {}
    /\ sent = <<>>
    /\ path_in = NoPathInput
    /\ path_sync = NoPathResult
    /\ path_worker = NoPathResult
    /\ poll_resp = NoPoll
    /\ payments = {}
    /\ succeeded = {}
    /\ refunds = {}
    /\ pay_resp = [op |-> "none", status |-> 0]
    /\ admin_resp = NoAdminResponse
    /\ deleted_events = {}

\* ------------------------------------------------- booking engine: reserve

\* Mutant: num_tickets is not validated.
ValidateBooking_NoTicketCheck(user_id, num_tickets, seat_numbers) ==
    IF user_id = "" THEN "user_id is required"
    ELSE IF seat_numbers # "list" THEN "seat_numbers must be a list"
    ELSE "ok"

\* Validation of a reserve request, before any store operation: the error of
\* the 400 response, or "ok".
ValidateBooking(user_id, num_tickets, seat_numbers) ==
    IF user_id = "" THEN "user_id is required"
    ELSE IF num_tickets <= 0 THEN "num_tickets must be greater than 0"
    ELSE IF seat_numbers # "list" THEN "seat_numbers must be a list"
    ELSE "ok"

\* Mutant: the decrement is conditioned on the Event existing only.
DecrementCondition_ExistsOnly(table, event_id, num_tickets) ==
    Present(table, event_id)

\* Mutant: the threshold is strict.
DecrementCondition_Strict(table, event_id, num_tickets) ==
    /\ Present(table, event_id)
    /\ table[event_id] > num_tickets

\* The predicate of the atomic conditional decrement: the Event exists and
\* has at least num_tickets seats.
DecrementCondition(table, event_id, num_tickets) ==
    /\ Present(table, event_id)
    /\ table[event_id] >= num_tickets

\* The predicate of the atomic conditional increment: the Event still exists.
IncrementCondition(table, event_id) == Present(table, event_id)

\* The Booking a reserve request synthesizes; the id is generated by the
\* request (before the decrement).
NewBooking(c) ==
    [booking_id |-> c, user_id |-> req[c].user_id,
     event_id |-> req[c].event_id, num_tickets |-> req[c].num_tickets]

\* Clients are numbered in the order their requests arrive.
Arrives(c) ==
    /\ pc[c] = "idle"
    /\ \A d \in Clients : d < c => pc[d] # "idle"

\* POST /api/events/<event_id>/book: the request arrives and is validated.
BookRequest(c, event_id, num_tickets, user_id, seat_numbers) ==
    /\ Arrives(c)
    /\ req' = [req EXCEPT ![c] = [op |-> "book", event_id |-> event_id,
                                  num_tickets |-> num_tickets, user_id |-> user_id,
                                  seat_numbers |-> seat_numbers, booking_id |-> c]]
    /\ LET verdict == ValidateBooking(user_id, num_tickets, seat_numbers) IN
       IF verdict = "ok"
       THEN /\ pc' = [pc EXCEPT ![c] = "book_update"]
            /\ resp' = resp
       ELSE /\ pc' = [pc EXCEPT ![c] = "done"]
            /\ resp' = [resp EXCEPT ![c] = [status |-> 400, error |-> verdict]]
    /\ UNCHANGED <<events, bookings, local, hist, writes, initial_seats, capacity, admin_ops>>

\* The atomic conditional decrement of total_seats: one store operation.
BookUpdate(c) ==
    /\ pc[c] = "book_update"
    /\ LET e == req[c].event_id
           n == req[c].num_tickets IN
       IF DecrementCondition(events, e, n)
       THEN /\ events' = [events EXCEPT ![e] = @ - n]
            /\ local' = [local EXCEPT ![c].remaining_seats = events[e] - n]
            /\ writes' = [writes EXCEPT ![e] = @ + 1]
            /\ hist' = [hist EXCEPT ![c].decremented = TRUE,
                                    ![c].seats_before = events[e],
                                    ![c].write_no = writes[e] + 1]
            /\ pc' = [pc EXCEPT ![c] = "book_put"]
       ELSE /\ hist' = [hist EXCEPT ![c].refused = TRUE,
                                    ![c].refused_present = Present(events, e),
                                    ![c].refused_seats =
                                        IF Present(events, e) THEN events[e] ELSE 0]
            /\ pc' = [pc EXCEPT ![c] = "book_get"]
            /\ UNCHANGED <<events, local, writes>>
    /\ UNCHANGED <<bookings, req, resp, initial_seats, capacity, admin_ops>>

\* After a refused decrement: the follow-up read of the Event that tells
\* NotFound from Conflict.
BookGet(c) ==
    /\ pc[c] = "book_get"
    /\ LET e == req[c].event_id IN
       resp' = [resp EXCEPT ![c] =
                  IF ~Present(events, e)
                  THEN [status |-> 404, error |-> "Event not found"]
                  ELSE [status |-> 409, error |-> "Not enough seats",
                        requested |-> req[c].num_tickets,
                        available |-> events[e]]]
    /\ pc' = [pc EXCEPT ![c] = "done"]
    /\ UNCHANGED <<events, bookings, req, local, hist, writes, initial_seats, capacity, admin_ops>>

\* Mutant: the request answers 201 without persisting the Booking.
BookPut_NoWrite(c) ==
    /\ pc[c] = "book_put"
    /\ resp' = [resp EXCEPT ![c] = [status |-> 201, message |-> "Booking successful",
                                    booking |-> NewBooking(c),
                                    remaining_seats |-> local[c].remaining_seats]]
    /\ pc' = [pc EXCEPT ![c] = "done"]
    /\ UNCHANGED <<events, bookings, req, local, hist, writes, initial_seats, capacity, admin_ops>>

\* After a successful decrement: the Booking is persisted as a second write
\* and the request answers 201.
BookPut(c) ==
    /\ pc[c] = "book_put"
    /\ bookings' = Put(bookings, c, NewBooking(c))
    /\ resp' = [resp EXCEPT ![c] = [status |-> 201, message |-> "Booking successful",
                                    booking |-> NewBooking(c),
                                    remaining_seats |-> local[c].remaining_seats]]
    /\ pc' = [pc EXCEPT ![c] = "done"]
    /\ UNCHANGED <<events, req, local, hist, writes, initial_seats, capacity, admin_ops>>

\* -------------------------------------------------- booking engine: cancel

\* DELETE /api/bookings/<booking_id>: the request arrives and looks the
\* Booking up.
CancelRequest(c, booking_id) ==
    /\ Arrives(c)
    /\ req' = [req EXCEPT ![c] = [NoRequest EXCEPT !.op = "cancel",
                                                   !.booking_id = booking_id]]
    /\ IF Present(bookings, booking_id)
       THEN /\ local' = [local EXCEPT ![c].booking = bookings[booking_id]]
            /\ pc' = [pc EXCEPT ![c] = "cancel_update"]
            /\ resp' = resp
       ELSE /\ resp' = [resp EXCEPT ![c] = [status |-> 404, error |-> "Booking not found"]]
            /\ pc' = [pc EXCEPT ![c] = "done"]
            /\ local' = local
    /\ UNCHANGED <<events, bookings, hist, writes, initial_seats, capacity, admin_ops>>

\* Mutant: a single seat is restored.
RestoredSeats_One(c) == 1

\* The seats a cancel restores: the num_tickets of the Booking it looked up.
RestoredSeats(c) == local[c].booking.num_tickets

\* Mutant: when the Event no longer exists the Booking is deleted all the
\* same and the request answers 200.
CancelUpdate_DeleteAnyway(c) ==
    /\ pc[c] = "cancel_update"
    /\ LET e == local[c].booking.event_id
           n == RestoredSeats(c) IN
       IF IncrementCondition(events, e)
       THEN /\ events' = [events EXCEPT ![e] = @ + n]
            /\ local' = [local EXCEPT ![c].updated_total_seats = events[e] + n]
            /\ hist' = [hist EXCEPT ![c].incremented = TRUE,
                                    ![c].prev_write_no = writes[e]]
            /\ writes' = [writes EXCEPT ![e] = @ + 1]
            /\ pc' = [pc EXCEPT ![c] = "cancel_delete"]
            /\ UNCHANGED <<resp, bookings>>
       ELSE /\ bookings' = Delete(bookings, local[c].booking.booking_id)
            /\ resp' = [resp EXCEPT ![c] =
                          [status |-> 200, message |-> "Booking cancelled successfully",
                           restored_seats |-> 0, updated_total_seats |-> 0]]
            /\ pc' = [pc EXCEPT ![c] = "done"]
            /\ UNCHANGED <<events, local, hist, writes>>
    /\ UNCHANGED <<req, initial_seats, capacity, admin_ops>>

\* The atomic conditional increment of the owning Event's total_seats.
CancelUpdate(c) ==
    /\ pc[c] = "cancel_update"
    /\ LET e == local[c].booking.event_id
           n == RestoredSeats(c) IN
       IF IncrementCondition(events, e)
       THEN /\ events' = [events EXCEPT ![e] = @ + n]
            /\ local' = [local EXCEPT ![c].updated_total_seats = events[e] + n]
            /\ hist' = [hist EXCEPT ![c].incremented = TRUE,
                                    ![c].prev_write_no = writes[e]]
            /\ writes' = [writes EXCEPT ![e] = @ + 1]
            /\ pc' = [pc EXCEPT ![c] = "cancel_delete"]
            /\ resp' = resp
       ELSE /\ resp' = [resp EXCEPT ![c] =
                          [status |-> 404, error |-> "Associated event not found"]]
            /\ pc' = [pc EXCEPT ![c] = "done"]
            /\ UNCHANGED <<events, local, hist, writes>>
    /\ UNCHANGED <<bookings, req, initial_seats, capacity, admin_ops>>

\* After the increment succeeded: the Booking record is deleted and the
\* request answers 200.
CancelDelete(c) ==
    /\ pc[c] = "cancel_delete"
    /\ bookings' = Delete(bookings, local[c].booking.booking_id)
    /\ resp' = [resp EXCEPT ![c] =
                  [status |-> 200, message |-> "Booking cancelled successfully",
                   restored_seats |-> RestoredSeats(c),
                   updated_total_seats |-> local[c].updated_total_seats]]
    /\ pc' = [pc EXCEPT ![c] = "done"]
    /\ UNCHANGED <<events, req, local, hist, writes, initial_seats, capacity, admin_ops>>

\* ------------------------------------------------------ admin event catalog

\* POST /api/admin/events: the Event is stored under its id, whatever was
\* stored there; total_seats is taken from the request as it is.
create_event(event_id, total_seats) ==
    /\ admin_ops < MaxAdminOps
    /\ admin_ops' = admin_ops + 1
    /\ events' = Put(events, event_id, total_seats)
    /\ writes' = [writes EXCEPT ![event_id] = @ + 1]
    /\ UNCHANGED <<bookings, pc, req, local, resp, hist, initial_seats, capacity>>

\* PUT /api/admin/events/<event_id> with total_seats among the fields: 404
\* when the Event is absent (nothing changes), else the field is overwritten.
update_event(event_id, total_seats) ==
    /\ admin_ops < MaxAdminOps
    /\ IF ~Present(events, event_id)
       THEN UNCHANGED <<events, writes, admin_ops>>
       ELSE /\ events' = [events EXCEPT ![event_id] = total_seats]
            /\ writes' = [writes EXCEPT ![event_id] = @ + 1]
            /\ admin_ops' = admin_ops + 1
    /\ UNCHANGED <<bookings, pc, req, local, resp, hist, initial_seats, capacity>>

\* DELETE /api/admin/events/<event_id>: 404 when the Event is absent, else
\* the Event is removed; Bookings are not touched.
delete_event(event_id) ==
    /\ admin_ops < MaxAdminOps
    /\ IF ~Present(events, event_id)
       THEN UNCHANGED <<events, writes, admin_ops>>
       ELSE /\ events' = Delete(events, event_id)
            /\ writes' = [writes EXCEPT ![event_id] = @ + 1]
            /\ admin_ops' = admin_ops + 1
    /\ UNCHANGED <<bookings, pc, req, local, resp, hist, initial_seats, capacity>>

\* ------------------------------------------ admin event service: the routes

\* The Authorization headers of a request to the admin routes, in pieces:
\* no header, the token of a user, the token of an admin, and the token of
\* an admin in capitals.
AdminHeaders ==
    {<<>>,
     <<"Bearer ", "user", "-token">>,
     <<"Bearer ", "admin", "-token">>,
     <<"Bearer ", "ADMIN", "-token">>}

\* str.lower of a piece of a header.
Lower(piece) ==
    CASE piece = "ADMIN" -> "admin"
      [] piece = "Bearer " -> "bearer "
      [] OTHER -> piece

\* 'admin' in auth_header.lower()
HasAdmin(auth_header) == \E i \in 1..Len(auth_header) : Lower(auth_header[i]) = "admin"

\* Mutant: every header that is present is taken for the header of an admin.
require_admin_NoRoleCheck(auth_header) == IF auth_header = <<>> THEN 401 ELSE 0

\* require_admin: 401 without a header, 403 when the header in lower case
\* does not contain 'admin'; 0 when the route is entered.
require_admin(auth_header) ==
    IF auth_header = <<>> THEN 401
    ELSE IF ~HasAdmin(auth_header) THEN 403
    ELSE 0

\* The routes of the admin event service.
AdminRoutes == {"create", "read", "update", "delete"}

\* A request to an admin route: the decorator answers 401 or 403, or the
\* route runs: create stores the event under the id of the request (400
\* when a required field is missing), read answers 200 or 404, update and
\* delete answer 404 for an absent event and else change the store.
AdminRequest(route, event_id, total_seats, missing, auth_header) ==
    LET answer(status) == [route |-> route, event_id |-> event_id, auth |-> auth_header,
                           status |-> status]
        refused == require_admin(auth_header)
    IN  /\ IF refused # 0
           THEN /\ admin_resp' = answer(refused)
                /\ UNCHANGED <<engineVars, deleted_events>>
           ELSE IF route = "create"
           THEN IF missing
                THEN /\ admin_resp' = answer(400)
                     /\ UNCHANGED <<engineVars, deleted_events>>
                ELSE /\ create_event(event_id, total_seats)
                     /\ admin_resp' = answer(201)
                     /\ UNCHANGED deleted_events
           ELSE IF route = "read"
           THEN /\ admin_resp' = answer(IF Present(events, event_id) THEN 200 ELSE 404)
                /\ UNCHANGED <<engineVars, deleted_events>>
           ELSE IF route = "update"
           THEN /\ update_event(event_id, total_seats)
                /\ admin_resp' = answer(IF Present(events, event_id) THEN 200 ELSE 404)
                /\ UNCHANGED deleted_events
           ELSE /\ delete_event(event_id)
                /\ admin_resp' = answer(IF Present(events, event_id) THEN 200 ELSE 404)
                /\ deleted_events' = IF Present(events, event_id)
                                     THEN deleted_events \cup {event_id}
                                     ELSE deleted_events
        /\ UNCHANGED <<orchVars, proxyVars, workerVars, pathVars, poll_resp, payVars>>

\* ------------------------------------------------------------ orchestrator

\* The Authorization header of a request: missing, a bearer token that fails
\* verification, the valid token of a user, the valid token of an admin.
Tokens == {"none", "invalid", "user", "admin"}

\* verify_authorization_header: the claims of a valid token, or an error.
Verify(token) ==
    IF token = "none"
    THEN [ok |-> FALSE, err |-> "Missing or invalid Authorization header",
          sub |-> "", groups |-> {}, role |-> ""]
    ELSE IF token = "invalid"
    THEN [ok |-> FALSE, err |-> "Signature verification failed",
          sub |-> "", groups |-> {}, role |-> ""]
    ELSE IF token = "admin"
    THEN [ok |-> TRUE, err |-> "", sub |-> "sub-admin", groups |-> {"admin"},
          role |-> "ADMIN"]
    ELSE [ok |-> TRUE, err |-> "", sub |-> "sub-user", groups |-> {}, role |-> "USER"]

\* The saga requests: route "sync" is POST /api/orch/bookings, route "notify"
\* POST /api/orch/bookings/notify; missing tells that one of the required
\* fields (event_id, num_tickets, user_id, amount, currency) is not in the
\* body; user_id is the user_id of the body.
OrchInputs ==
    [route : {"sync", "notify"}, event_id : EventIds, num_tickets : 1..MaxSeats,
     user_id : {"user-123"}, token : {"none", "invalid", "user"}, missing : {FALSE}]
    \cup [route : {"sync", "notify"}, event_id : {"1"}, num_tickets : {1},
          user_id : {"user-123"}, token : {"user"}, missing : {TRUE}]

\* Mutant: the user_id of the body is always used.
EffectiveUserId_Body(configured, token, body_user_id) == body_user_id

\* effective_user_id: the sub of the verified claims when identity
\* verification is configured, else the user_id of the body.
EffectiveUserId(configured, token, body_user_id) ==
    IF configured THEN Verify(token).sub ELSE body_user_id

\* Sagas are numbered in the order their requests arrive.
OrchArrives(s) ==
    /\ opc[s] = "idle"
    /\ \A t \in Sagas : t < s => opc[t] # "idle"

\* POST /api/orch/bookings and POST /api/orch/bookings/notify up to the
\* booking call: token verification, required fields, effective user id,
\* and the reserve request sent to the booking engine (which validates it).
OrchRequest(s, in) ==
    /\ OrchArrives(s)
    /\ oreq' = [oreq EXCEPT ![s] = in]
    /\ IF verifier /\ ~Verify(in.token).ok
       THEN /\ oresp' = [oresp EXCEPT ![s] =
                           [status |-> 401, code |-> "UNAUTHORIZED",
                            message |-> Verify(in.token).err]]
            /\ opc' = [opc EXCEPT ![s] = "done"]
            /\ UNCHANGED <<olocal, events, bookings, pc, req, local, resp, hist, writes,
                           initial_seats, capacity, admin_ops>>
       ELSE IF in.missing
       THEN /\ oresp' = [oresp EXCEPT ![s] =
                           [status |-> 400, code |-> "BAD_REQUEST",
                            message |-> "Missing field"]]
            /\ opc' = [opc EXCEPT ![s] = "done"]
            /\ UNCHANGED <<olocal, events, bookings, pc, req, local, resp, hist, writes,
                           initial_seats, capacity, admin_ops>>
       ELSE \E c \in Clients :
              LET user_id == EffectiveUserId(verifier, in.token, in.user_id) IN
              /\ BookRequest(c, in.event_id, in.num_tickets, user_id, "list")
              /\ olocal' = [olocal EXCEPT ![s].user_id = user_id, ![s].client = c]
              /\ opc' = [opc EXCEPT ![s] = "book_wait"]
              /\ oresp' = oresp
    /\ UNCHANGED <<verifier, stripe_intents>>
    /\ UNCHANGED otherServiceVars

\* Mutant: only server errors of the booking engine abort the saga.
IsError_ServerOnly(status_code) == status_code >= 500

\* status_code >= 400: the downstream call failed.
IsError(status_code) == status_code >= 400

\* The body of a booking-engine success response with the booking id left
\* out (a downstream that answers in another shape).
WithoutBookingId(body) == [status |-> body.status, message |-> "Booking successful"]

\* booking = payload.get("booking") or payload; booking.get("booking_id"):
\* the booking id of a response body, -1 when there is none.
BookingIdOf(body) ==
    IF "booking" \in DOMAIN body THEN body.booking.booking_id
    ELSE IF "booking_id" \in DOMAIN body THEN body.booking_id
    ELSE -1

\* Mutant: a response without booking id is reported as a failed booking.
InvalidResponse_AsFailure == [status |-> 400, code |-> "BOOKING_FAILED",
                              message |-> "No booking_id returned"]

\* The answer to a booking response without booking id.
InvalidResponse == [status |-> 502, code |-> "BOOKING_INVALID_RESPONSE",
                    message |-> "No booking_id returned"]

\* The booking engine has answered the reserve call: a status >= 400 ends
\* the saga with BOOKING_FAILED, a body without booking id with
\* BOOKING_INVALID_RESPONSE; else the saga goes on to the payment intent.
OrchBookReturn(s) ==
    /\ opc[s] = "book_wait"
    /\ pc[olocal[s].client] = "done"
    /\ LET book_res == resp[olocal[s].client] IN
       IF IsError(book_res.status)
       THEN /\ oresp' = [oresp EXCEPT ![s] =
                           [status |-> 400, code |-> "BOOKING_FAILED",
                            message |-> book_res]]
            /\ opc' = [opc EXCEPT ![s] = "done"]
            /\ olocal' = olocal
       ELSE \E body \in {book_res, WithoutBookingId(book_res)} :
              IF BookingIdOf(body) = -1
              THEN /\ oresp' = [oresp EXCEPT ![s] = InvalidResponse]
                   /\ opc' = [opc EXCEPT ![s] = "done"]
                   /\ olocal' = olocal
              ELSE /\ olocal' = [olocal EXCEPT ![s].booking_id = BookingIdOf(body)]
                   /\ opc' = [opc EXCEPT ![s] = "pay"]
                   /\ oresp' = oresp
    /\ UNCHANGED <<verifier, oreq, stripe_intents, events, bookings, pc, req, local, resp,
                   hist, writes, initial_seats, capacity, admin_ops>>
    /\ UNCHANGED otherServiceVars

\* The id the payment processor gives the next intent.
NextPaymentId == Cardinality(stripe_intents) + 1

\* The amount, in minor units, and the currency of the intent with the
\* payment id, as the processor holds them: the requests alternate between
\* 50 sgd and 12.50 usd.
IntentAmount(payment_id) == IF payment_id % 2 = 1 THEN 5000 ELSE 1250

IntentCurrency(payment_id) == IF payment_id % 2 = 1 THEN "sgd" ELSE "usd"

\* Decimal(amount) / Decimal(100): the amount in major units, as units and
\* hundredths.
Major(amount) == [units |-> amount \div 100, hundredths |-> amount % 100]

\* str.upper of a currency code.
Upper(currency) ==
    CASE currency = "sgd" -> "SGD"
      [] currency = "usd" -> "USD"
      [] OTHER -> currency

\* The key attribute the payments table is created with.
KeySchema == "payment_id"

\* Mutant: put_item of an item that is in the table already removes it.
PutItem_RemoveOnRepeat(table, key, item) ==
    IF item \in table THEN table \ {item}
    ELSE {i \in table : i[key] # item[key]} \cup {item}

\* Mutant: put_item adds the item and keeps the item with the same key.
PutItem_NoReplace(table, key, item) == table \cup {item}

\* table.put_item: the item replaces the item with the same key.
PutItem(table, key, item) == {i \in table : i[key] # item[key]} \cup {item}

\* The payments table after put_item of the item.
put_item(item) == payments' = PutItem(payments, KeySchema, item)

\* The statuses with which the processor answers a create call that does
\* not fail: the intent waits for a payment method, or is succeeded at once.
CreatedStatus(outcome) ==
    IF outcome = "succeeded" THEN "succeeded" ELSE "requires_payment_method"

\* POST /api/payments/create-intent for a booking: the processor creates the
\* intent, or fails; an intent that is succeeded is stored in the payments
\* table with the status of the intent.
create_payment_intent(booking_id, outcome) ==
    /\ stripe_intents' =
          IF outcome \in {"ok", "succeeded"}
          THEN stripe_intents \cup {[payment_id |-> NextPaymentId, booking_id |-> booking_id]}
          ELSE stripe_intents
    /\ IF outcome = "succeeded"
       THEN /\ succeeded' = succeeded \cup {NextPaymentId}
            /\ put_item([payment_id |-> NextPaymentId, booking_id |-> booking_id,
                         amount |-> Major(IntentAmount(NextPaymentId)),
                         currency |-> Upper(IntentCurrency(NextPaymentId)),
                         status |-> CreatedStatus(outcome)])
       ELSE UNCHANGED <<succeeded, payments>>

\* The response of create-intent: 200 with the payment id, or 500.
PayResponse(outcome) ==
    IF outcome \in {"ok", "succeeded"}
    THEN [status |-> 200, payment_id |-> NextPaymentId, client_secret |-> "secret"]
    ELSE [status |-> 500, error |-> "processor error"]

\* The booking of the saga's booking response.
SagaBooking(s) == resp[olocal[s].client].booking

\* Mutant: a failed payment intent is compensated by cancelling the booking.
OrchPay_Compensate(s) ==
    /\ opc[s] = "pay"
    /\ \E outcome \in {"ok", "error"} :
         /\ create_payment_intent(olocal[s].booking_id, outcome)
         /\ LET pay_res == PayResponse(outcome) IN
            IF IsError(pay_res.status)
            THEN /\ oresp' = [oresp EXCEPT ![s] =
                                [status |-> 400, code |-> "PAYMENT_INTENT_FAILED",
                                 message |-> pay_res]]
                 /\ opc' = [opc EXCEPT ![s] = "done"]
                 /\ olocal' = [olocal EXCEPT ![s].pay_called = TRUE]
                 /\ bookings' = Delete(bookings, olocal[s].booking_id)
                 /\ events' = [events EXCEPT ![SagaBooking(s).event_id] =
                                                @ + SagaBooking(s).num_tickets]
            ELSE /\ oresp' = [oresp EXCEPT ![s] =
                                [status |-> 201, success |-> TRUE,
                                 booking |-> SagaBooking(s),
                                 payment |-> [payment_id |-> pay_res.payment_id,
                                              client_secret |-> pay_res.client_secret],
                                 warnings |-> <<>>]]
                 /\ opc' = [opc EXCEPT ![s] = "done"]
                 /\ olocal' = [olocal EXCEPT ![s].pay_called = TRUE,
                                             ![s].payment_id = pay_res.payment_id]
                 /\ UNCHANGED <<events, bookings>>
    /\ UNCHANGED <<verifier, oreq, pc, req, local, resp, hist, writes,
                   initial_seats, capacity, admin_ops>>
    /\ UNCHANGED otherServiceVars

\* The payment-intent step: a status >= 400 ends the saga with
\* PAYMENT_INTENT_FAILED and nothing else is called; else route "sync"
\* answers 201 and route "notify" goes on to the notifications.
OrchPay(s) ==
    /\ opc[s] = "pay"
    /\ \E outcome \in {"ok", "error"} :
         /\ create_payment_intent(olocal[s].booking_id, outcome)
         /\ LET pay_res == PayResponse(outcome) IN
            IF IsError(pay_res.status)
            THEN /\ oresp' = [oresp EXCEPT ![s] =
                                [status |-> 400, code |-> "PAYMENT_INTENT_FAILED",
                                 message |-> pay_res]]
                 /\ opc' = [opc EXCEPT ![s] = "done"]
                 /\ olocal' = [olocal EXCEPT ![s].pay_called = TRUE]
            ELSE IF oreq[s].route = "sync"
            THEN /\ oresp' = [oresp EXCEPT ![s] =
                                [status |-> 201, success |-> TRUE,
                                 booking |-> SagaBooking(s),
                                 payment |-> [payment_id |-> pay_res.payment_id,
                                              client_secret |-> pay_res.client_secret],
                                 warnings |-> <<>>]]
                 /\ opc' = [opc EXCEPT ![s] = "done"]
                 /\ olocal' = [olocal EXCEPT ![s].pay_called = TRUE,
                                             ![s].payment_id = pay_res.payment_id]
            ELSE /\ opc' = [opc EXCEPT ![s] = "notify"]
                 /\ olocal' = [olocal EXCEPT ![s].pay_called = TRUE,
                                             ![s].payment_id = pay_res.payment_id]
                 /\ oresp' = oresp
    /\ UNCHANGED <<verifier, oreq, events, bookings, pc, req, local, resp, hist, writes,
                   initial_seats, capacity, admin_ops>>
    /\ UNCHANGED otherServiceVars

\* The outcomes of a notification call: a success response, an error
\* response (status >= 400), a raised exception.
NotifyOutcomes == {"ok", "error", "raise"}

\* The notification calls made: the email call when email, subject and
\* message are given; the SMS call when phone_number and message are given
\* and the email call raised no exception.
NotifyCalls(email_fields, sms_fields, email_out) ==
    (IF email_fields THEN {"email"} ELSE {})
    \cup (IF sms_fields /\ ~(email_fields /\ email_out = "raise") THEN {"sms"} ELSE {})

\* The warnings collected over the notification leg.
NotifyWarnings(email_fields, sms_fields, email_out, sms_out) ==
    LET email_warnings ==
            IF email_fields /\ email_out = "error" THEN <<[type |-> "email"]>> ELSE <<>>
    IN  IF email_fields /\ email_out = "raise" THEN <<[type |-> "notifications"]>>
        ELSE IF ~sms_fields \/ sms_out = "ok" THEN email_warnings
        ELSE IF sms_out = "error" THEN Append(email_warnings, [type |-> "sms"])
        ELSE Append(email_warnings, [type |-> "notifications"])

\* Mutant: a notification failure makes the saga answer 500.
NotifyStatus_FailOnWarning(warnings) == IF warnings = <<>> THEN 201 ELSE 500

\* The status of the notify saga after the notification leg.
NotifyStatus(warnings) == 201

\* The notification leg of route "notify" and its response. The contact
\* fields of the request (email with subject and message; phone_number with
\* message) are first read here.
OrchNotify(s) ==
    /\ opc[s] = "notify"
    /\ \E email_fields, sms_fields \in BOOLEAN, email_out, sms_out \in NotifyOutcomes :
         LET warnings == NotifyWarnings(email_fields, sms_fields, email_out, sms_out) IN
         /\ olocal' = [olocal EXCEPT ![s].notified =
                                        NotifyCalls(email_fields, sms_fields, email_out)]
         /\ oresp' = [oresp EXCEPT ![s] =
                        [status |-> NotifyStatus(warnings), success |-> TRUE,
                         booking |-> SagaBooking(s),
                         payment |-> [payment_id |-> olocal[s].payment_id,
                                      client_secret |-> "secret"],
                         warnings |-> warnings]]
    /\ opc' = [opc EXCEPT ![s] = "done"]
    /\ UNCHANGED <<verifier, oreq, stripe_intents, events, bookings, pc, req, local, resp,
                   hist, writes, initial_seats, capacity, admin_ops>>
    /\ UNCHANGED otherServiceVars

\* ----------------------------------------------------------- generic proxy

\* Strings the proxy inspects are sequences of pieces ("/" and the words
\* between); a prefix of pieces is a prefix of the string.
StartsWith(str, prefix) ==
    Len(str) >= Len(prefix) /\ SubSeq(str, 1, Len(prefix)) = prefix

\* "/api/admin": the prefix of the admin-only downstream paths.
AdminPrefix == <<"/", "api", "/", "admin">>

\* The endpoint of a proxy request: admin paths with and without the leading
\* "/", a public path, the login path, and the empty string.
ProxyEndpoints ==
    {<<"/", "api", "/", "admin", "/", "events">>,
     <<"api", "/", "admin", "/", "events">>,
     <<"/", "api", "/", "events">>,
     <<"api", "/", "events">>,
     <<"/", "api", "/", "users", "/", "login">>,
     <<>>}

\* The service of a proxy request as sent: known names, a name in capitals,
\* an unknown name, and the empty string.
ProxyServices == {"admin", "ADMIN", "events", "unknown", ""}

\* (payload.get("service") or "").strip().lower()
ServiceName(service) == IF service = "ADMIN" THEN "admin" ELSE service

\* base_url_map: the services the proxy knows.
KnownServices == {"admin", "payment", "notifications", "events", "bookings", "booking"}

\* The endpoints the admin service serves without authentication.
UnauthEndpoints == {<<"/", "api", "/", "users", "/", "login">>,
                    <<"/", "api", "/", "users", "/", "register">>}

\* The path the downstream call goes to: a missing leading "/" is prepended.
TargetPath(endpoint) ==
    IF StartsWith(endpoint, <<"/">>) THEN endpoint ELSE <<"/">> \o endpoint

\* is_admin: "ADMIN" among cognito:groups, or the role claim is "ADMIN".
IsAdmin(claims) == "ADMIN" \in claims.groups \/ claims.role = "ADMIN"

\* The names of the headers that carry the identity of the caller downstream.
IdentityHeaders == {"X-User-Id", "X-User-Roles"}

\* The headers of a request to the proxy, as name-value pairs: the
\* Authorization header when a token is sent, and identity headers the
\* client wrote itself when it forges them.
IncomingHeaders(token, forged) ==
    (IF token = "none" THEN {} ELSE {<<"Authorization", token>>})
    \cup (IF forged THEN {<<"X-User-Id", "sub-admin">>, <<"X-User-Roles", {"ADMIN"}>>}
          ELSE {})

\* Mutant: every incoming header is copied.
auth_headers_CopyAll(incoming_headers) == incoming_headers

\* _auth_headers: only the Authorization header is copied.
auth_headers(incoming_headers) == {h \in incoming_headers : h[1] = "Authorization"}

\* headers[name] = value for each of the pairs set: a header of the same
\* name is replaced.
SetHeaders(headers, set) ==
    {h \in headers : \A g \in set : g[1] # h[1]} \cup set

\* POST /api/orchestrator: the request is verified, checked and forwarded
\* with the Authorization header and, when the caller was verified, the
\* identity headers made from the claims; the downstream status is passed
\* through.
proxy_to_service(service, endpoint, token, forged) ==
    LET name == ServiceName(service)
        allow_unauth == name = "admin" /\ endpoint \in UnauthEndpoints
        verified == ~allow_unauth /\ verifier
        claims == Verify(token)
    IN  /\ proxy_req' = [service |-> service, endpoint |-> endpoint, token |-> token,
                         forged |-> forged]
        /\ IF verified /\ ~claims.ok
           THEN /\ proxy_resp' = [status |-> 401, success |-> FALSE]
                /\ proxy_call' = NoProxyCall
           ELSE IF verified /\ StartsWith(endpoint, AdminPrefix) /\ ~IsAdmin(claims)
           THEN /\ proxy_resp' = [status |-> 403, success |-> FALSE]
                /\ proxy_call' = NoProxyCall
           ELSE IF name = "" \/ endpoint = <<>> \/ name \notin KnownServices
           THEN /\ proxy_resp' = [status |-> 400, success |-> FALSE]
                /\ proxy_call' = NoProxyCall
           ELSE /\ proxy_call' = [made |-> TRUE, service |-> name,
                                  path |-> TargetPath(endpoint),
                                  user_id |-> IF verified THEN claims.sub ELSE "",
                                  headers |->
                                      IF verified
                                      THEN SetHeaders(
                                               auth_headers(IncomingHeaders(token, forged)),
                                               {<<"X-User-Id", claims.sub>>,
                                                <<"X-User-Roles", claims.groups>>})
                                      ELSE auth_headers(IncomingHeaders(token, forged))]
                /\ \E status \in {200, 404} :
                     proxy_resp' = [status |-> status, success |-> status < 300]
        /\ UNCHANGED <<events, bookings, pc, req, local, resp, hist, writes, initial_seats,
                       capacity, admin_ops, orchVars, workerVars, auxVars>>

\* ------------------------------------------------- work queue and worker

\* The message queue is a FIFO queue with message groups: within a group
\* messages are delivered in the order they were sent, and while a message
\* of a group is in flight no message of that group is delivered. A message
\* is in flight from its receipt until it is deleted or its visibility
\* timeout has run out; the worker is the only consumer, so the timeout of a
\* message it is done with is taken to have run out by its next receive.

\* The messages sent to the queue: the JSON of a booking request (for one
\* seat or all seats of the event, or for an event that does not exist), a
\* JSON object without amount, a JSON value that is no object, and a body
\* that is no JSON.
QueueInputs ==
    {[kind |-> "request", event_id |-> "1", num_tickets |-> 1],
     [kind |-> "request", event_id |-> "1", num_tickets |-> MaxSeats],
     [kind |-> "request", event_id |-> "999", num_tickets |-> 1],
     [kind |-> "incomplete", event_id |-> "1", num_tickets |-> 1],
     [kind |-> "not_object", event_id |-> "1", num_tickets |-> 1],
     [kind |-> "undecodable", event_id |-> "1", num_tickets |-> 1]}

\* MaxNumberOfMessages of the receive call: one message at a time.
MAX_MESSAGES == 1

\* The asynchronous POST /api/orch/bookings: the request gets the next
\* request_id and its message is sent to the queue with the event id as
\* message group. No status record is written.
orchestrate_booking(kind, event_id, num_tickets) ==
    /\ next_request_id <= NumMessages
    /\ LET message == [request_id |-> next_request_id, kind |-> kind,
                       event_id |-> event_id, num_tickets |-> num_tickets,
                       user_id |-> "user-123"]
       IN  /\ queue' = Append(queue, message)
           /\ sent' = Append(sent, message)
    /\ next_request_id' = next_request_id + 1
    /\ UNCHANGED <<wpc, wbatch, wlocal, status_table, origin, completed_requests>>
    /\ UNCHANGED <<engineVars, orchVars, proxyVars, auxVars>>

\* The positions in the queue of the messages of group g, in queue order.
GroupPositions(g) == {i \in 1..Len(queue) : queue[i].event_id = g}

\* The first n positions of the set P of positions.
FirstPositions(P, n) == {i \in P : Cardinality({j \in P : j < i}) < n}

\* The messages at the set P of positions, in queue order.
RECURSIVE MessagesAt(_)
MessagesAt(P) ==
    IF P = {} THEN <<>>
    ELSE LET i == CHOOSE j \in P : \A k \in P : j <= k
         IN  <<queue[i]>> \o MessagesAt(P \ {i})

\* The queue without the message of the request id.
RECURSIVE Without(_, _)
Without(q, request_id) ==
    IF q = <<>> THEN <<>>
    ELSE IF Head(q).request_id = request_id THEN Tail(q)
    ELSE <<Head(q)>> \o Without(Tail(q), request_id)

\* Mutant: a receive call returns up to one message more.
WorkerReceive_Batch ==
    /\ wpc = "poll"
    /\ \E g \in EventIds, n \in 1..(MAX_MESSAGES + 1) :
         LET P == FirstPositions(GroupPositions(g), n) IN
         /\ Cardinality(P) = n
         /\ wbatch' = MessagesAt(P)
    /\ wpc' = "decode"
    /\ UNCHANGED <<queue, wlocal, status_table, origin, completed_requests,
                   next_request_id, sent>>
    /\ UNCHANGED <<engineVars, orchVars, proxyVars, auxVars>>

\* sqs.receive_message: up to MAX_MESSAGES messages from the front of a
\* group.
WorkerReceive ==
    /\ wpc = "poll"
    /\ \E g \in EventIds, n \in 1..MAX_MESSAGES :
         LET P == FirstPositions(GroupPositions(g), n) IN
         /\ Cardinality(P) = n
         /\ wbatch' = MessagesAt(P)
    /\ wpc' = "decode"
    /\ UNCHANGED <<queue, wlocal, status_table, origin, completed_requests,
                   next_request_id, sent>>
    /\ UNCHANGED <<engineVars, orchVars, proxyVars, auxVars>>

\* update_status: the record of the request is overwritten; a failed write
\* is swallowed and leaves the table as it was.
update_status(request_id, status, data, error, written) ==
    status_table' =
        IF written
        THEN Put(status_table, request_id, [status |-> status, data |-> data, error |-> error])
        ELSE status_table

\* The worker goes on to the next message of the batch, or polls again.
NextMessage ==
    /\ wbatch' = Tail(wbatch)
    /\ wpc' = IF Len(wbatch) > 1 THEN "decode" ELSE "poll"
    /\ wlocal' = NoWorkerLocal

\* The message the worker is processing.
Message == Head(wbatch)

\* Mutant: a body that is no JSON is handled like a booking request.
WorkerDecode_NoPoisonCheck ==
    /\ wpc = "decode"
    /\ \E written \in BOOLEAN :
         update_status(Message.request_id, "processing", NoData, "", written)
    /\ wpc' = "book"
    /\ UNCHANGED <<queue, wbatch, wlocal>>
    /\ UNCHANGED <<origin, completed_requests, next_request_id, sent>>
    /\ UNCHANGED <<engineVars, orchVars, proxyVars, auxVars>>

\* Mutant: a JSON value that is no object is deleted like a body that is no
\* JSON.
WorkerDecode_DeleteNonObject ==
    /\ wpc = "decode"
    /\ IF Message.kind \in {"undecodable", "not_object"}
       THEN /\ \E deleted \in BOOLEAN :
                 IF deleted
                 THEN /\ queue' = Without(queue, Message.request_id)
                      /\ NextMessage
                 ELSE /\ wbatch' = <<>>
                      /\ wpc' = "sleep"
                      /\ UNCHANGED <<queue, wlocal>>
            /\ UNCHANGED status_table
       ELSE /\ \E written \in BOOLEAN :
                 update_status(Message.request_id, "processing", NoData, "", written)
            /\ wpc' = "book"
            /\ UNCHANGED <<queue, wbatch, wlocal>>
    /\ UNCHANGED <<origin, completed_requests, next_request_id, sent>>
    /\ UNCHANGED <<engineVars, orchVars, proxyVars, auxVars>>

\* json.loads of the body: a body that is no JSON is deleted from the queue
\* (a delete that fails ends in the handler of the polling loop, which drops
\* the rest of the batch and sleeps); a JSON value that is no object has no
\* get: the error ends in the generic handler of the message, which leaves
\* the message in the queue and writes no status; else status processing is
\* written for the request.
WorkerDecode ==
    /\ wpc = "decode"
    /\ IF Message.kind = "undecodable"
       THEN /\ \E deleted \in BOOLEAN :
                 IF deleted
                 THEN /\ queue' = Without(queue, Message.request_id)
                      /\ NextMessage
                 ELSE /\ wbatch' = <<>>
                      /\ wpc' = "sleep"
                      /\ UNCHANGED <<queue, wlocal>>
            /\ UNCHANGED status_table
       ELSE IF Message.kind = "not_object"
       THEN /\ NextMessage
            /\ UNCHANGED <<queue, status_table>>
       ELSE /\ \E written \in BOOLEAN :
                 update_status(Message.request_id, "processing", NoData, "", written)
            /\ wpc' = "book"
            /\ UNCHANGED <<queue, wbatch, wlocal>>
    /\ UNCHANGED <<origin, completed_requests, next_request_id, sent>>
    /\ UNCHANGED <<engineVars, orchVars, proxyVars, auxVars>>

\* The polling loop goes on after the sleep of its error handler.
WorkerWake ==
    /\ wpc = "sleep"
    /\ wpc' = "poll"
    /\ UNCHANGED <<queue, wbatch, wlocal, status_table, origin, completed_requests,
                   next_request_id, sent>>
    /\ UNCHANGED <<engineVars, orchVars, proxyVars, auxVars>>

\* The result of process_booking: a failure with its error.
Failure(error) == [success |-> FALSE, error |-> error, booking_id |-> -1, payment_id |-> 0]

\* process_booking up to the booking call: the fields are read from the
\* message (a missing field ends in the generic handler) and the reserve
\* request is sent to the booking engine, or the connection fails.
WorkerBook ==
    /\ wpc = "book"
    /\ IF Message.kind = "incomplete"
       THEN /\ wlocal' = [wlocal EXCEPT !.result = Failure("Unexpected error")]
            /\ wpc' = "record"
            /\ UNCHANGED <<origin, engineVars>>
       ELSE \/ \E c \in Clients :
                 /\ BookRequest(c, Message.event_id, Message.num_tickets,
                                Message.user_id, "list")
                 /\ origin' = [origin EXCEPT ![c] = Message.request_id]
                 /\ wlocal' = [wlocal EXCEPT !.client = c]
                 /\ wpc' = "book_wait"
            \/ /\ wlocal' = [wlocal EXCEPT !.result = Failure("Network error")]
               /\ wpc' = "record"
               /\ UNCHANGED <<origin, engineVars>>
    /\ UNCHANGED <<queue, wbatch, status_table, completed_requests, next_request_id, sent>>
    /\ UNCHANGED <<orchVars, proxyVars, auxVars>>

\* The booking engine has answered: a status >= 400 and a body without
\* booking id are failures; else the worker goes on to the payment intent.
WorkerBookReturn ==
    /\ wpc = "book_wait"
    /\ pc[wlocal.client] = "done"
    /\ LET booking_response == resp[wlocal.client] IN
       IF booking_response.status >= 400
       THEN /\ wlocal' = [wlocal EXCEPT !.result = Failure("Booking failed")]
            /\ wpc' = "record"
       ELSE \E body \in {booking_response, WithoutBookingId(booking_response)} :
              IF BookingIdOf(body) = -1
              THEN /\ wlocal' = [wlocal EXCEPT !.result =
                                   Failure("No booking_id returned from booking service")]
                   /\ wpc' = "record"
              ELSE /\ wlocal' = [wlocal EXCEPT !.result.booking_id = BookingIdOf(body)]
                   /\ wpc' = "pay"
    /\ UNCHANGED <<queue, wbatch, status_table, origin, completed_requests, next_request_id, sent>>
    /\ UNCHANGED <<engineVars, orchVars, proxyVars, auxVars>>

\* The booking call times out: the booking engine handles the request, with
\* whatever outcome, but its answer does not reach the worker within the 30
\* seconds.
WorkerBookTimeout ==
    /\ wpc = "book_wait"
    /\ pc[wlocal.client] = "done"
    /\ wlocal' = [wlocal EXCEPT !.result =
                    Failure("Request timeout while processing booking")]
    /\ wpc' = "record"
    /\ UNCHANGED <<queue, wbatch, status_table, origin, completed_requests, next_request_id, sent>>
    /\ UNCHANGED <<engineVars, orchVars, proxyVars, auxVars>>

\* The payment intent for the booking: on success process_booking returns
\* the booking and the payment; a status >= 400 is a failure.
WorkerPay ==
    /\ wpc = "pay"
    /\ \E outcome \in {"ok", "error"} :
         /\ create_payment_intent(wlocal.result.booking_id, outcome)
         /\ wlocal' = [wlocal EXCEPT !.result =
                         IF PayResponse(outcome).status >= 400
                         THEN Failure("Payment intent failed")
                         ELSE [success |-> TRUE, error |-> "",
                               booking_id |-> wlocal.result.booking_id,
                               payment_id |-> PayResponse(outcome).payment_id]]
    /\ wpc' = "record"
    /\ UNCHANGED <<queue, wbatch, status_table, origin, completed_requests, next_request_id, sent>>
    /\ UNCHANGED <<engineVars, verifier, opc, oreq, olocal, oresp, proxyVars, auxVars>>

\* Mutant: a status write that fails raises: the error ends in the generic
\* handler of the message and the message is left in the queue.
WorkerRecord_RaiseOnStatusFailure ==
    /\ wpc = "record"
    /\ \E written \in BOOLEAN :
         IF wlocal.result.success /\ written
         THEN /\ update_status(Message.request_id, "completed",
                               [booking_id |-> wlocal.result.booking_id,
                                payment_id |-> wlocal.result.payment_id], "", written)
              /\ wpc' = "delete"
              /\ UNCHANGED <<wbatch, wlocal>>
         ELSE /\ update_status(Message.request_id, "failed", NoData,
                               wlocal.result.error, written)
              /\ NextMessage
    /\ UNCHANGED <<queue, origin, completed_requests, next_request_id, sent>>
    /\ UNCHANGED <<engineVars, orchVars, proxyVars, auxVars>>

\* Mutant: the message of a failed request is deleted from the queue.
WorkerRecord_DeleteOnFailure ==
    /\ wpc = "record"
    /\ \E written \in BOOLEAN :
         IF wlocal.result.success
         THEN /\ update_status(Message.request_id, "completed",
                               [booking_id |-> wlocal.result.booking_id,
                                payment_id |-> wlocal.result.payment_id], "", written)
              /\ wpc' = "delete"
              /\ UNCHANGED <<queue, wbatch, wlocal>>
         ELSE /\ update_status(Message.request_id, "failed", NoData,
                               wlocal.result.error, written)
              /\ queue' = Without(queue, Message.request_id)
              /\ NextMessage
    /\ UNCHANGED <<origin, completed_requests, next_request_id, sent>>
    /\ UNCHANGED <<engineVars, orchVars, proxyVars, auxVars>>

\* The outcome is recorded: completed with the booking and the payment, and
\* the worker goes on to delete the message; or failed with the error, and
\* the message is left in the queue.
WorkerRecord ==
    /\ wpc = "record"
    /\ \E written \in BOOLEAN :
         IF wlocal.result.success
         THEN /\ update_status(Message.request_id, "completed",
                               [booking_id |-> wlocal.result.booking_id,
                                payment_id |-> wlocal.result.payment_id], "", written)
              /\ wpc' = "delete"
              /\ UNCHANGED <<wbatch, wlocal>>
         ELSE /\ update_status(Message.request_id, "failed", NoData,
                               wlocal.result.error, written)
              /\ NextMessage
    /\ UNCHANGED <<queue, origin, completed_requests, next_request_id, sent>>
    /\ UNCHANGED <<engineVars, orchVars, proxyVars, auxVars>>

\* sqs.delete_message after a completed request: the message is deleted, or
\* the call fails and the generic handler leaves the message in the queue.
WorkerDelete ==
    /\ wpc = "delete"
    /\ \E deleted \in BOOLEAN :
         IF deleted
         THEN /\ queue' = Without(queue, Message.request_id)
              /\ completed_requests' = completed_requests \cup {Message.request_id}
         ELSE UNCHANGED <<queue, completed_requests>>
    /\ NextMessage
    /\ UNCHANGED <<status_table, origin, next_request_id, sent>>
    /\ UNCHANGED <<engineVars, orchVars, proxyVars, auxVars>>

\* --------------------------------------------------------- status polling

\* The outcomes of get_item on the status table: an answer, the table does
\* not exist, another error of the store.
TrackerOutcomes == {"ok", "ResourceNotFoundException", "error"}

\* GET /api/orch/bookings/status/{request_id}: 404 not_found when the table
\* has no item for the request, else 200 with the status, the data (empty
\* when the item has none) and updated_at of the item.
check_booking_status(request_id, outcome) ==
    /\ poll_resp' =
          IF outcome = "ResourceNotFoundException"
          THEN [code |-> 503, request_id |-> request_id, status |-> "table_not_created"]
          ELSE IF outcome = "error"
          THEN [code |-> 500, error |-> [code |-> "STATUS_ERROR"]]
          ELSE IF ~Present(status_table, request_id)
          THEN [code |-> 404, request_id |-> request_id, status |-> "not_found"]
          ELSE [code |-> 200, request_id |-> request_id,
                status |-> status_table[request_id].status,
                data |-> status_table[request_id].data,
                updated_at |-> "updated_at"]
    /\ UNCHANGED <<engineVars, orchVars, proxyVars, workerVars, pathVars, payVars, adminVars>>

\* ------------------------------------- synchronous path and queued path

\* The frame of the path comparison: everything but pathVars.
notPathVars == <<engineVars, orchVars, proxyVars, workerVars, poll_resp, payVars, adminVars>>

\* The seats of a request: no seats key, an empty list, a list of labels.
SeatsInputs == {"absent", "empty", "list"}

\* A request to POST /api/orch/bookings with the answers the booking engine
\* and the payment service give to the calls made for it.
PathInputs ==
    [given : {TRUE}, event_id : EventIds, num_tickets : 1..MaxSeats,
     user_id : {"user-123"}, amount : {"50"}, currency : {"sgd"},
     seats : SeatsInputs, configured : BOOLEAN, token : {"user"},
     book_status : {201, 409}, book_has_id : BOOLEAN, pay_status : {200, 500}]

\* d.get(key): the value of the key, None when the key is absent.
Get(d, key) == IF key \in DOMAIN d THEN d[key] ELSE "None"

\* The truth value of a seats value.
Truthy(v) == v \notin {"None", "empty", "absent"}

\* message_body of the queued request: seats is data.get("seats").
message_body(data, effective_user_id) ==
    [request_id |-> "request", event_id |-> data.event_id,
     num_tickets |-> data.num_tickets, user_id |-> effective_user_id,
     amount |-> data.amount, currency |-> data.currency,
     seats |-> IF data.seats = "absent" THEN "None" ELSE data.seats]

\* The body of a booking request: the keys it carries ("absent": no key).
BookingBody(num_tickets, user_id, seats, seat_numbers) ==
    [num_tickets |-> num_tickets, user_id |-> user_id, seats |-> seats,
     seat_numbers |-> seat_numbers]

\* booking_data of _process_booking: seats is sent when the request has a
\* non-empty seats.
booking_data(data, user_id) ==
    BookingBody(data.num_tickets, user_id,
                IF data.seats # "absent" /\ Truthy(data.seats) THEN data.seats ELSE "absent",
                "absent")

\* booking_payload of the worker's process_booking: seat_numbers is sent
\* when the message has a non-empty seat_numbers.
booking_payload(body) ==
    BookingBody(body.num_tickets, body.user_id, "absent",
                IF Truthy(Get(body, "seat_numbers")) THEN Get(body, "seat_numbers")
                ELSE "absent")

\* The body of the create-intent call of either path.
payment_payload(booking_id, amount, currency) ==
    [booking_id |-> booking_id, amount |-> amount, currency |-> currency]

\* The calls a path makes and where it ends, given the booking request it
\* sends: a booking answer >= 400 and an answer without booking id end it
\* before the payment call, a payment answer >= 400 after it.
PathResult(in, booking_request, data) ==
    [done |-> TRUE,
     url |-> <<"/api/events/", data.event_id, "/book">>,
     booking_request |-> booking_request,
     payment_request |->
        IF in.book_status >= 400 \/ ~in.book_has_id THEN [sent |-> FALSE]
        ELSE [sent |-> TRUE,
              body |-> payment_payload("booking", data.amount, data.currency)],
     outcome |->
        IF in.book_status >= 400 THEN "booking failed"
        ELSE IF ~in.book_has_id THEN "no booking_id"
        ELSE IF in.pay_status >= 400 THEN "payment intent failed"
        ELSE "success"]

\* A request is given to both paths.
PathRequest(in) ==
    /\ ~path_in.given
    /\ path_in' = in
    /\ UNCHANGED <<path_sync, path_worker>>
    /\ UNCHANGED notPathVars

\* orchestrate_booking_sync and _process_booking handle the request.
PathSync ==
    /\ path_in.given /\ ~path_sync.done
    /\ LET user_id == EffectiveUserId(path_in.configured, path_in.token, path_in.user_id)
       IN  path_sync' = PathResult(path_in, booking_data(path_in, user_id), path_in)
    /\ UNCHANGED <<path_in, path_worker>>
    /\ UNCHANGED notPathVars

\* The request is queued and the worker's process_booking handles its
\* message.
PathWorker ==
    /\ path_in.given /\ ~path_worker.done
    /\ LET user_id == EffectiveUserId(path_in.configured, path_in.token, path_in.user_id)
           body == message_body(path_in, user_id)
       IN  path_worker' = PathResult(path_in, booking_payload(body), body)
    /\ UNCHANGED <<path_in, path_sync>>
    /\ UNCHANGED notPathVars

\* -------------------------------------------------------- payment service

\* The frame of the payment service: everything but stripe_intents and
\* payVars.
notPayVars == <<engineVars, verifier, opc, oreq, olocal, oresp, proxyVars, workerVars,
                pathVars, poll_resp, adminVars>>

\* The bookings payments are made for.
PayBookings == {1, 2}

\* The payment ids of the intents the processor holds.
CreatedIds == {i.payment_id : i \in stripe_intents}

\* POST /api/payments/create-intent: 400 when a required field is missing,
\* else the intent is created at the processor.
PayCreate(booking_id, missing, outcome) ==
    /\ IF missing
       THEN /\ pay_resp' = [op |-> "create", status |-> 400,
                            error |-> "Missing required fields"]
            /\ UNCHANGED <<stripe_intents, succeeded, payments>>
       ELSE /\ Cardinality(stripe_intents) < NumIntents
            /\ create_payment_intent(booking_id, outcome)
            /\ pay_resp' = [op |-> "create", booking_id |-> booking_id] @@ PayResponse(outcome)
    /\ UNCHANGED refunds
    /\ UNCHANGED notPayVars

\* The customer pays: the processor reports the intent as succeeded.
ProcessorConfirm(payment_id) ==
    /\ payment_id \in CreatedIds \ succeeded
    /\ succeeded' = succeeded \cup {payment_id}
    /\ UNCHANGED <<stripe_intents, payments, refunds, pay_resp>>
    /\ UNCHANGED notPayVars

\* The record verify-intent stores for a succeeded intent.
VerifiedRecord(payment_id, booking_id) ==
    [payment_id |-> payment_id, booking_id |-> booking_id,
     amount |-> Major(IntentAmount(payment_id)),
     currency |-> Upper(IntentCurrency(payment_id)),
     status |-> "completed"]

\* Mutant: the intent is recorded as completed whatever its status.
verify_payment_intent_NoStatusCheck(payment_id, booking_id, outcome) ==
    /\ IF payment_id = 0 \/ booking_id = 0
       THEN /\ pay_resp' = [op |-> "verify", payment_id |-> payment_id,
                            booking_id |-> booking_id, status |-> 400,
                            error |-> "Missing payment_id or booking_id"]
            /\ UNCHANGED payments
       ELSE IF outcome = "error" \/ payment_id \notin CreatedIds
       THEN /\ pay_resp' = [op |-> "verify", payment_id |-> payment_id,
                            booking_id |-> booking_id, status |-> 500,
                            error |-> "processor error"]
            /\ UNCHANGED payments
       ELSE /\ put_item(VerifiedRecord(payment_id, booking_id))
            /\ pay_resp' = [op |-> "verify", payment_id |-> payment_id,
                            booking_id |-> booking_id, status |-> 200,
                            message |-> "Payment verified and recorded",
                            repeated |-> VerifiedRecord(payment_id, booking_id) \in payments]
    /\ UNCHANGED <<stripe_intents, succeeded, refunds>>
    /\ UNCHANGED notPayVars

\* POST /api/payments/verify-intent (payment_id, booking_id: 0 when the
\* field is missing): 400 when a field is missing; the intent is fetched
\* from the processor (500 when the call raises) and, when it is succeeded,
\* stored with status completed, the amount in major units and the currency
\* uppercased; else 400 with the status of the intent.
verify_payment_intent(payment_id, booking_id, outcome) ==
    /\ IF payment_id = 0 \/ booking_id = 0
       THEN /\ pay_resp' = [op |-> "verify", payment_id |-> payment_id,
                            booking_id |-> booking_id, status |-> 400,
                            error |-> "Missing payment_id or booking_id"]
            /\ UNCHANGED payments
       ELSE IF outcome = "error" \/ payment_id \notin CreatedIds
       THEN /\ pay_resp' = [op |-> "verify", payment_id |-> payment_id,
                            booking_id |-> booking_id, status |-> 500,
                            error |-> "processor error"]
            /\ UNCHANGED payments
       ELSE IF payment_id \in succeeded
       THEN /\ put_item(VerifiedRecord(payment_id, booking_id))
            /\ pay_resp' = [op |-> "verify", payment_id |-> payment_id,
                            booking_id |-> booking_id, status |-> 200,
                            message |-> "Payment verified and recorded",
                            repeated |-> VerifiedRecord(payment_id, booking_id) \in payments]
       ELSE /\ pay_resp' = [op |-> "verify", payment_id |-> payment_id,
                            booking_id |-> booking_id, status |-> 400,
                            error |-> "Payment not succeeded, current status: requires_payment_method"]
            /\ UNCHANGED payments
    /\ UNCHANGED <<stripe_intents, succeeded, refunds>>
    /\ UNCHANGED notPayVars

\* get_payment_intent_id: the payment_intent_id attribute of the first item
\* the query on booking_id returns; None when there is no item, when the
\* item has no such attribute, and when the query raises (booking_id is not
\* the key of the table).
get_payment_intent_id(booking_id) ==
    LET items == {i \in payments : i.booking_id = booking_id} IN
    IF KeySchema # "booking_id" \/ items = {} THEN "None"
    ELSE Get(CHOOSE i \in items : TRUE, "payment_intent_id")

\* The Authorization headers of a refund request.
AuthHeaders == {"none", "Basic abc", "Bearer abc"}

\* auth_header.startswith("Bearer ") of a header that is present.
IsBearer(auth_header) == auth_header = "Bearer abc"

\* Mutant: the refund is processed without looking at the Authorization
\* header.
process_refund_NoAuth(booking_id, auth_header, amount, outcome) ==
    /\ LET payment_id == get_payment_intent_id(booking_id)
           answer(status, error) ==
               [op |-> "refund", booking_id |-> booking_id, auth |-> auth_header,
                amount |-> amount, processor |-> outcome,
                status |-> status, error |-> error]
       IN  IF payment_id = "None"
           THEN /\ pay_resp' = answer(404, "No payment_intent found for booking_id")
                /\ UNCHANGED <<payments, refunds>>
           ELSE IF amount = "text"
           THEN /\ pay_resp' = answer(400, "Invalid amount value")
                /\ UNCHANGED <<payments, refunds>>
           ELSE IF outcome # "ok"
           THEN /\ pay_resp' = IF outcome = "stripe_error"
                               THEN answer(400, "stripe_error")
                               ELSE answer(500, "internal_error")
                /\ UNCHANGED <<payments, refunds>>
           ELSE /\ refunds' = refunds \cup {[payment_intent |-> payment_id,
                                              amount |-> amount]}
                /\ IF KeySchema = "booking_id"
                   THEN /\ payments' = {i \in payments : i.booking_id # booking_id}
                        /\ pay_resp' = answer(200, "")
                   ELSE /\ payments' = payments
                        /\ pay_resp' = answer(500, "internal_error")
    /\ UNCHANGED <<stripe_intents, succeeded>>
    /\ UNCHANGED notPayVars

\* POST /api/payments/refund/{booking_id}: 401 without a Bearer header; 404
\* when no intent id is found for the booking; 400 for an amount that is
\* no number; else the refund is created at the processor (400 on a
\* processor error, 500 on another error), the item of the booking is
\* deleted by its booking_id (500 when booking_id is not the key of the
\* table) and the answer is 200.
process_refund(booking_id, auth_header, amount, outcome) ==
    /\ LET payment_id == get_payment_intent_id(booking_id)
           answer(status, error) ==
               [op |-> "refund", booking_id |-> booking_id, auth |-> auth_header,
                amount |-> amount, processor |-> outcome,
                status |-> status, error |-> error]
       IN  IF auth_header = "none" \/ ~IsBearer(auth_header)
           THEN /\ pay_resp' = answer(401, "Missing or invalid authorization token")
                /\ UNCHANGED <<payments, refunds>>
           ELSE IF payment_id = "None"
           THEN /\ pay_resp' = answer(404, "No payment_intent found for booking_id")
                /\ UNCHANGED <<payments, refunds>>
           ELSE IF amount = "text"
           THEN /\ pay_resp' = answer(400, "Invalid amount value")
                /\ UNCHANGED <<payments, refunds>>
           ELSE IF outcome # "ok"
           THEN /\ pay_resp' = IF outcome = "stripe_error"
                               THEN answer(400, "stripe_error")
                               ELSE answer(500, "internal_error")
                /\ UNCHANGED <<payments, refunds>>
           ELSE /\ refunds' = refunds \cup {[payment_intent |-> payment_id,
                                              amount |-> amount]}
                /\ IF KeySchema = "booking_id"
                   THEN /\ payments' = {i \in payments : i.booking_id # booking_id}
                        /\ pay_resp' = answer(200, "")
                   ELSE /\ payments' = payments
                        /\ pay_resp' = answer(500, "internal_error")
    /\ UNCHANGED <<stripe_intents, succeeded>>
    /\ UNCHANGED notPayVars

\* ------------------------------------------------------------ specifications

\* The steps of the booking engine on the request of client c.
BookSteps(c) ==
    \/ BookUpdate(c) /\ UNCHANGED serviceVars
    \/ BookGet(c) /\ UNCHANGED serviceVars
    \/ BookPut(c) /\ UNCHANGED serviceVars

Book(c) ==
    \/ \E r \in BookInputs :
          /\ BookRequest(c, r.event_id, r.num_tickets, r.user_id, r.seat_numbers)
          /\ UNCHANGED serviceVars
    \/ BookSteps(c)

Cancel(c) ==
    \/ \E b \in BookingIds : CancelRequest(c, b) /\ UNCHANGED serviceVars
    \/ CancelUpdate(c) /\ UNCHANGED serviceVars
    \/ CancelDelete(c) /\ UNCHANGED serviceVars

Admin ==
    \/ \E e \in EventIds, n \in SeatInputs : create_event(e, n) /\ UNCHANGED serviceVars
    \/ \E e \in EventIds, n \in SeatInputs : update_event(e, n) /\ UNCHANGED serviceVars
    \/ \E e \in EventIds : delete_event(e) /\ UNCHANGED serviceVars

\* Reserve requests only.
NextReserve == \E c \in Clients : Book(c)

SpecReserve == Init /\ [][NextReserve]_vars

\* Reserve and cancel requests, no admin call.
NextBooking == \E c \in Clients : Book(c) \/ Cancel(c)

SpecBooking == Init /\ [][NextBooking]_vars

\* Reserve and cancel requests and admin deletion of events.
NextInventory ==
    \/ \E c \in Clients : Book(c) \/ Cancel(c)
    \/ \E e \in EventIds : delete_event(e) /\ UNCHANGED serviceVars

SpecInventory == Init /\ [][NextInventory]_vars

\* The synchronous orchestrator, the booking engine serving its reserve
\* calls, and the payment processor.
NextSaga ==
    \/ \E s \in Sagas : \E in \in OrchInputs : OrchRequest(s, in)
    \/ \E s \in Sagas : OrchBookReturn(s)
    \/ \E s \in Sagas : OrchPay(s)
    \/ \E s \in Sagas : OrchNotify(s)
    \/ \E c \in Clients : BookSteps(c)

SpecSaga == Init /\ [][NextSaga]_vars

\* Requests to the generic proxy.
NextProxy ==
    \E service \in ProxyServices, endpoint \in ProxyEndpoints, token \in Tokens,
       forged \in BOOLEAN :
        proxy_to_service(service, endpoint, token, forged)

SpecProxy == Init /\ [][NextProxy]_vars

\* The whole system.
Next ==
    \/ \E c \in Clients : Book(c) \/ Cancel(c)
    \/ Admin

Spec == Init /\ [][Next]_vars

\* The queue, the worker and the booking engine it calls.
NextWorker ==
    \/ \E in \in QueueInputs : orchestrate_booking(in.kind, in.event_id, in.num_tickets)
    \/ WorkerReceive
    \/ WorkerDecode
    \/ WorkerWake
    \/ WorkerBook
    \/ WorkerBookReturn
    \/ WorkerBookTimeout
    \/ WorkerPay
    \/ WorkerRecord
    \/ WorkerDelete
    \/ \E c \in Clients : BookSteps(c)

\* The polling loop runs for ever and the booking engine answers every
\* request: no step of the worker or of the engine that can be taken is put
\* off for ever. Whether a call to the queue, the status table or a service
\* succeeds is left to the environment.
WorkerFairness ==
    /\ WF_vars(WorkerReceive)
    /\ WF_vars(WorkerDecode)
    /\ WF_vars(WorkerWake)
    /\ WF_vars(WorkerBook)
    /\ WF_vars(WorkerBookReturn)
    /\ WF_vars(WorkerPay)
    /\ WF_vars(WorkerRecord)
    /\ WF_vars(WorkerDelete)
    /\ \A c \in Clients : WF_vars(BookSteps(c))

\* Requests to the routes of the admin event service.
NextAdmin ==
    \E route \in AdminRoutes, event_id \in EventIds, total_seats \in SeatInputs,
       missing \in BOOLEAN, auth_header \in AdminHeaders :
        AdminRequest(route, event_id, total_seats, missing, auth_header)

\* The admin event service alone: no booking is made.
InitAdmin == Init /\ ~verifier /\ ~Present(bookings, 0)

SpecAdmin == InitAdmin /\ [][NextAdmin]_vars

\* The payment service and the processor.
NextPayment ==
    \/ \E booking_id \in PayBookings, missing \in BOOLEAN,
          outcome \in {"ok", "succeeded", "error"} :
          PayCreate(booking_id, missing, outcome)
    \/ \E payment_id \in 1..NumIntents : ProcessorConfirm(payment_id)
    \/ \E payment_id \in 0..NumIntents, booking_id \in {0} \cup PayBookings,
          outcome \in {"ok", "error"} :
          verify_payment_intent(payment_id, booking_id, outcome)
    \/ \E booking_id \in PayBookings, auth_header \in AuthHeaders,
          amount \in {"absent", "number", "text"},
          outcome \in {"ok", "stripe_error", "error"} :
          process_refund(booking_id, auth_header, amount, outcome)

\* The payment service calls neither the booking engine nor the
\* orchestrator: their state is left fixed.
InitPayment == Init /\ ~verifier /\ ~Present(bookings, 0) /\ events["1"] = MaxSeats

SpecPayment == InitPayment /\ [][NextPayment]_vars

\* One request handled by the synchronous path and by the queued path.
NextPaths ==
    \/ \E in \in PathInputs : PathRequest(in)
    \/ PathSync
    \/ PathWorker

SpecPaths == Init /\ [][NextPaths]_vars

\* The queue and the worker, with a client that polls the status of the
\* requests.
NextStatus ==
    \/ NextWorker
    \/ \E request_id \in 1..NumMessages, outcome \in TrackerOutcomes :
          check_booking_status(request_id, outcome)

\* The worker sends no token and the engine checks none: the setting of the
\* orchestrator's identity verification is left fixed. The bookings are those
\* the worker makes.
InitWorker == Init /\ ~verifier /\ ~Present(bookings, 0)

SpecWorker == InitWorker /\ [][NextWorker]_vars

SpecWorkerFair == InitWorker /\ [][NextWorker]_vars /\ WorkerFairness

SpecStatus == InitWorker /\ [][NextStatus]_vars

\* ------------------------------------------------------------------ claims

\* Sum of f[x] over the finite set S.
RECURSIVE SumOver(_, _)
SumOver(S, f) ==
    IF S = {} THEN 0
    ELSE LET x == CHOOSE y \in S : TRUE IN f[x] + SumOver(S \ {x}, f)

\* The reserve requests on event e that passed validation.
Reserves(e) ==
    {c \in Clients : req[c].op = "book" /\ req[c].event_id = e /\ pc[c] # "idle"
                     /\ resp[c].status # 400}

\* The reserve requests on event e answered 201.
Succeeded(e) == {c \in Reserves(e) : resp[c].status = 201}

\* The reserve requests on event e whose decrement has been applied.
AppliedReserves(e) == {c \in Reserves(e) : hist[c].decremented}

\* num_tickets per request.
Tickets == [c \in Clients |-> req[c].num_tickets]

\* Sum of num_tickets over the Bookings of event e that exist.
ActiveTickets(e) ==
    SumOver({b \in DOMAIN bookings : bookings[b].event_id = e},
            [b \in DOMAIN bookings |-> bookings[b].num_tickets])

\* No operation is in progress.
Quiescent == \A c \in Clients : pc[c] \in {"idle", "done"}

\* C1. No overselling under concurrent reserve requests: total_seats of an
\* event is never negative, it always equals the initial count N minus the
\* tickets of the requests whose decrement was applied, the requests answered
\* 201 hold at most N tickets together, and a request is refused with 409
\* only when it asked for more seats than were left.
C1_NoOverselling ==
    \A e \in DOMAIN initial_seats :
        /\ Present(events, e)
        /\ events[e] >= 0
        /\ events[e] = initial_seats[e] - SumOver(AppliedReserves(e), Tickets)
        /\ SumOver(Succeeded(e), Tickets) <= initial_seats[e]
        /\ \A c \in Reserves(e) :
              /\ hist[c].refused => req[c].num_tickets > hist[c].refused_seats
              /\ pc[c] = "done" =>
                    resp[c].status = (IF hist[c].decremented THEN 201 ELSE 409)

\* C1 witness: reserve requests on one event asking for more than N tickets
\* together have all finished, one of them answered 201 and one 409.
C1_Witness ==
    \E e \in DOMAIN initial_seats :
        /\ \A c \in Clients : pc[c] = "done"
        /\ SumOver(Reserves(e), Tickets) > initial_seats[e]
        /\ \E c, d \in Reserves(e) : resp[c].status = 201 /\ resp[d].status = 409

\* C2. Once all reserve and cancel operations have finished, total_seats of
\* an event equals its initial value (its value before any reservation was
\* made) minus the sum of num_tickets over the Bookings that still exist.
C2_SeatConservation ==
    Quiescent =>
        \A e \in DOMAIN capacity :
            Present(events, e) /\ events[e] = capacity[e] - ActiveTickets(e)

\* C8. Event with total_seats = 2 and two concurrent reserve requests of 2
\* tickets each (and no other reserve on that event): once both have
\* finished, exactly one answered 201 with remaining_seats = 0 and the other
\* 409 with requested = 2 and available = 0.
C8_TwoRequestsForTwoSeats ==
    \A e \in DOMAIN initial_seats : \A c, d \in Clients :
        ( /\ initial_seats[e] = 2
          /\ c # d
          /\ Reserves(e) = {c, d}
          /\ req[c].num_tickets = 2 /\ req[d].num_tickets = 2
          /\ pc[c] = "done" /\ pc[d] = "done" )
        => /\ resp[c].status = 201 \/ resp[d].status = 201
           /\ resp[c].status = 201 =>
                 /\ resp[c].remaining_seats = 0
                 /\ resp[d].status = 409
                 /\ resp[d].requested = 2
                 /\ resp[d].available = 0

\* C8 witness: the scenario has run to its end.
C8_Witness ==
    \E e \in DOMAIN initial_seats : \E c, d \in Clients :
        /\ initial_seats[e] = 2
        /\ c # d
        /\ Reserves(e) = {c, d}
        /\ req[c].num_tickets = 2 /\ req[d].num_tickets = 2
        /\ resp[c].status = 201 /\ resp[d].status = 409

\* A cancel has restored the seats of booking b.
Restored(b) ==
    \E d \in Clients :
        req[d].op = "cancel" /\ req[d].booking_id = b /\ hist[d].incremented

CancelFollowsReserve(d, b) ==
    /\ req[d].op = "cancel" /\ req[d].booking_id = b
    /\ hist[d].incremented
    /\ hist[b].decremented
    /\ hist[d].prev_write_no = hist[b].write_no

\* C4. reserve(k) followed by cancel of the returned booking with no other
\* operation on the event in between: total_seats is back at its value
\* before the reserve, the cancel reports restored_seats = k and
\* updated_total_seats = remaining_seats + k, and the Booking is gone.
C4_CancelInvertsReserve ==
    \A d, b \in Clients :
        CancelFollowsReserve(d, b) =>
            LET e == req[b].event_id
                k == req[b].num_tickets IN
            /\ local[d].updated_total_seats = hist[b].seats_before
            /\ writes[e] = hist[d].prev_write_no + 1 =>
                  Present(events, e) /\ events[e] = hist[b].seats_before
            /\ pc[d] = "done" =>
                  /\ resp[d].status = 200
                  /\ resp[d].restored_seats = k
                  /\ resp[d].updated_total_seats = resp[b].remaining_seats + k
                  /\ ~Present(bookings, b)

\* C4 witness: a reserve of 2 tickets was cancelled right after it and the
\* cancel has answered.
C4_Witness ==
    \E d, b \in Clients :
        /\ CancelFollowsReserve(d, b)
        /\ req[b].num_tickets = 2
        /\ pc[d] = "done" /\ resp[d].status = 200

\* A malformed reserve request.
Invalid(r) ==
    /\ r.op = "book"
    /\ r.num_tickets <= 0 \/ r.user_id = "" \/ r.seat_numbers # "list"

\* C5. Validation precedes mutation: a reserve request with num_tickets <= 0,
\* a missing user_id or seat_numbers that is no list is answered 400 at once,
\* never reaches the store (no decrement, no Booking), and the step that
\* handles it changes neither store.
C5_ValidationPrecedesMutation ==
    /\ [](\A c \in Clients :
            Invalid(req[c]) =>
                /\ pc[c] = "done" /\ resp[c].status = 400
                /\ ~hist[c].decremented /\ ~hist[c].refused
                /\ ~Present(bookings, c))
    /\ [][\A c \in Clients :
            (pc[c] = "idle" /\ pc'[c] # "idle" /\ Invalid(req'[c])) =>
                events' = events /\ bookings' = bookings]_vars

\* C5 witness: a malformed reserve request was answered 400 while the event
\* has seats and another reserve holds a Booking.
C5_Witness ==
    \E c \in Clients, d \in BookingIds :
        /\ Invalid(req[c]) /\ resp[c].status = 400
        /\ Present(bookings, d)
        /\ Present(events, req[c].event_id) /\ events[req[c].event_id] > 0

C7_ConflictMatchesRefusal ==
    \A c \in Clients :
        (pc[c] = "done" /\ resp[c].status = 409) =>
            /\ resp[c].requested = req[c].num_tickets
            /\ hist[c].refused_present
            /\ resp[c].available = hist[c].refused_seats
            /\ resp[c].available < resp[c].requested

\* C9. Cancel deletes the Booking only after its conditional increment
\* succeeded: a cancel whose event no longer exists answers 404 for the
\* associated event and its step changes neither store (the Booking stays);
\* a cancel of a booking_id that does not exist answers 404 and changes
\* neither store; a Booking leaves the store only by the delete step of a
\* cancel whose increment was applied.
C9_CancelDeletesAfterIncrement ==
    /\ [][\A c \in Clients :
        /\ (pc[c] = "cancel_update" /\ pc'[c] # "cancel_update"
              /\ ~Present(events, local[c].booking.event_id)) =>
              /\ pc'[c] = "done"
              /\ resp'[c].status = 404
              /\ resp'[c].error = "Associated event not found"
              /\ events' = events /\ bookings' = bookings
        /\ (pc[c] = "idle" /\ pc'[c] # "idle" /\ req'[c].op = "cancel"
              /\ ~Present(bookings, req'[c].booking_id)) =>
              /\ pc'[c] = "done"
              /\ resp'[c].status = 404
              /\ events' = events /\ bookings' = bookings
      ]_vars
    /\ [][\A b \in BookingIds :
            (Present(bookings, b) /\ ~Present(bookings', b)) =>
                \E d \in Clients :
                    /\ pc[d] = "cancel_delete" /\ pc'[d] = "done"
                    /\ hist[d].incremented
                    /\ local[d].booking.booking_id = b]_vars

\* C9 witness: a cancel was answered 404 for the associated event and the
\* Booking is still in the store.
C9_Witness ==
    \E c \in Clients :
        /\ req[c].op = "cancel" /\ pc[c] = "done"
        /\ resp[c].status = 404 /\ resp[c].error = "Associated event not found"
        /\ Present(bookings, req[c].booking_id)
        /\ ~Present(events, bookings[req[c].booking_id].event_id)

\* C10. Every stored Event has total_seats >= 0, whatever admin create /
\* update calls and reserve / cancel operations have run.
C10_SeatsNonNegative ==
    \A e \in DOMAIN events : events[e] >= 0

\* The saga s has received the booking engine's answer to its reserve call.
BookingAnswered(s) == olocal[s].client # 0 /\ opc[s] # "book_wait"

\* The saga s ended with the error code.
SagaFailedWith(s, code) ==
    opc[s] = "done" /\ oresp[s].status \in {400, 401, 502} /\ oresp[s].code = code

\* C11. Saga non-rollback: when the booking step succeeded and the
\* payment-intent call returns an error, the orchestrator answers
\* PAYMENT_INTENT_FAILED, the step that does so makes no call to the booking
\* engine and changes neither store, and the Booking and the decremented
\* seat count are still there afterwards.
C11_SagaNonRollback ==
    /\ [](\A s \in Sagas :
            SagaFailedWith(s, "PAYMENT_INTENT_FAILED") =>
                LET c == olocal[s].client
                    e == req[c].event_id IN
                /\ oresp[s].status = 400
                /\ resp[c].status = 201
                /\ Present(bookings, c) /\ bookings[c] = resp[c].booking
                /\ hist[c].decremented
                /\ events[e] = initial_seats[e] - SumOver(AppliedReserves(e), Tickets)
                /\ olocal[s].notified = {})
    /\ [][\A s \in Sagas :
            (opc[s] = "pay" /\ opc'[s] = "done" /\ oresp'[s].status = 400) =>
                /\ oresp'[s].code = "PAYMENT_INTENT_FAILED"
                /\ events' = events /\ bookings' = bookings /\ req' = req /\ pc' = pc
                /\ stripe_intents' = stripe_intents]_vars

\* C11 witness: a saga ended with PAYMENT_INTENT_FAILED and its Booking of
\* 2 tickets is in the store.
C11_Witness ==
    \E s \in Sagas :
        /\ SagaFailedWith(s, "PAYMENT_INTENT_FAILED")
        /\ Present(bookings, olocal[s].client)
        /\ bookings[olocal[s].client].num_tickets = 2

\* C12. The saga stops at the first failed step: when the booking engine
\* answers the reserve call with a status >= 400 the orchestrator returns
\* BOOKING_FAILED with the downstream message and makes no payment-intent
\* and no notification call; every payment intent carries the booking id of
\* a reserve that answered 201.
C12_SagaStopsAtBookingFailure ==
    /\ \A s \in Sagas :
          (BookingAnswered(s) /\ resp[olocal[s].client].status >= 400) =>
              /\ opc[s] = "done"
              /\ oresp[s].status = 400 /\ oresp[s].code = "BOOKING_FAILED"
              /\ oresp[s].message = resp[olocal[s].client]
              /\ ~olocal[s].pay_called /\ olocal[s].payment_id = 0
              /\ olocal[s].notified = {}
    /\ \A i \in stripe_intents :
          \E s \in Sagas :
              /\ olocal[s].client = i.booking_id
              /\ resp[i.booking_id].status = 201
              /\ resp[i.booking_id].booking.booking_id = i.booking_id

\* C12 witness: a saga ended with BOOKING_FAILED after the booking engine
\* answered 409.
C12_Witness ==
    \E s \in Sagas :
        /\ SagaFailedWith(s, "BOOKING_FAILED")
        /\ resp[olocal[s].client].status = 409

\* The saga s got a success response without booking id.
NoBookingIdReturned(s) ==
    /\ BookingAnswered(s)
    /\ resp[olocal[s].client].status < 400
    /\ olocal[s].booking_id = -1

\* C13. A success response of the booking engine without booking_id is
\* reported as BOOKING_INVALID_RESPONSE (502), not as BOOKING_FAILED, no
\* payment-intent call is made, and what the booking engine did (the seat
\* decrement, the Booking) stays in place.
C13_InvalidBookingResponse ==
    /\ [](\A s \in Sagas :
            NoBookingIdReturned(s) =>
                LET c == olocal[s].client IN
                /\ opc[s] = "done"
                /\ oresp[s].status = 502 /\ oresp[s].code = "BOOKING_INVALID_RESPONSE"
                /\ ~olocal[s].pay_called
                /\ \A i \in stripe_intents : i.booking_id # c
                /\ hist[c].decremented /\ Present(bookings, c))
    /\ [][\A s \in Sagas :
            (opc[s] = "book_wait" /\ opc'[s] = "done") =>
                events' = events /\ bookings' = bookings /\ req' = req]_vars

\* C13 witness: a saga ended with BOOKING_INVALID_RESPONSE.
C13_Witness ==
    \E s \in Sagas :
        NoBookingIdReturned(s) /\ SagaFailedWith(s, "BOOKING_INVALID_RESPONSE")

\* C14. Once booking and payment intent succeeded in the notify saga, the
\* notification leg cannot change the result: the answer is 201 with the
\* booking and the payment, failures only show as warnings (at most one per
\* call made), and the step changes no booking or payment state.
C14_NotificationsNonFatal ==
    /\ [](\A s \in Sagas :
            (oreq[s].route = "notify" /\ opc[s] = "done" /\ olocal[s].payment_id # 0) =>
                LET c == olocal[s].client IN
                /\ oresp[s].status = 201
                /\ oresp[s].booking = resp[c].booking
                /\ oresp[s].payment.payment_id = olocal[s].payment_id
                /\ Len(oresp[s].warnings) <= Cardinality(olocal[s].notified)
                /\ \A k \in 1..Len(oresp[s].warnings) :
                      oresp[s].warnings[k].type \in {"email", "sms", "notifications"}
                /\ Present(bookings, c)
                /\ [payment_id |-> olocal[s].payment_id, booking_id |-> c] \in stripe_intents)
    /\ [][\A s \in Sagas :
            (opc[s] = "notify" /\ opc'[s] # "notify") =>
                events' = events /\ bookings' = bookings /\ req' = req
                /\ stripe_intents' = stripe_intents]_vars

\* C14 witness: a notify saga answered after both notification calls failed.
C14_Witness ==
    \E s \in Sagas :
        /\ oreq[s].route = "notify" /\ opc[s] = "done" /\ olocal[s].payment_id # 0
        /\ Len(oresp[s].warnings) = 2

\* C15. With identity verification configured, the user_id sent to the
\* booking engine is the sub of the verified claims and not the user_id of
\* the body, and a request whose token fails verification is answered 401
\* with no downstream call; the user_id of the body is used only when
\* identity verification is not configured.
C15_VerifiedUserId ==
    \A s \in Sagas :
        /\ (verifier /\ olocal[s].client # 0) =>
              /\ Verify(oreq[s].token).ok
              /\ req[olocal[s].client].user_id = Verify(oreq[s].token).sub
              /\ req[olocal[s].client].user_id # oreq[s].user_id
        /\ (verifier /\ opc[s] # "idle" /\ ~Verify(oreq[s].token).ok) =>
              /\ opc[s] = "done"
              /\ oresp[s].status = 401 /\ oresp[s].code = "UNAUTHORIZED"
              /\ olocal[s] = NoOrchLocal
        /\ (~verifier /\ olocal[s].client # 0) =>
              req[olocal[s].client].user_id = oreq[s].user_id

\* C15 witness: with identity verification configured, a Booking was made
\* for the sub of the claims.
C15_Witness ==
    \E s \in Sagas :
        /\ verifier /\ olocal[s].client # 0
        /\ Present(bookings, olocal[s].client)
        /\ bookings[olocal[s].client].user_id = "sub-user"

\* C16. With identity verification configured, the generic proxy makes a
\* downstream call to a path under /api/admin only when the verified claims
\* include the admin role, and otherwise answers 403 (401 without valid
\* token) with no downstream call, whatever the form of the endpoint string
\* before the proxy prepends a missing leading "/".
C16_AdminPathsNeedAdminRole ==
    verifier =>
        /\ (proxy_call.made /\ StartsWith(proxy_call.path, AdminPrefix)) =>
              Verify(proxy_req.token).ok /\ IsAdmin(Verify(proxy_req.token))
        /\ (StartsWith(TargetPath(proxy_req.endpoint), AdminPrefix)
              /\ ~IsAdmin(Verify(proxy_req.token))) =>
              proxy_resp.status \in {401, 403} /\ ~proxy_call.made

\* The worker has started on the request: it has written (or tried to
\* write) its processing status, or called the booking engine for it.
Started(request_id) ==
    \/ Present(status_table, request_id)
    \/ \E c \in Clients : origin[c] = request_id
    \/ /\ wpc \in {"book", "book_wait", "pay", "record", "delete"}
       /\ Message.request_id = request_id

\* The request ids of the messages in the queue.
Queued == {queue[i].request_id : i \in 1..Len(queue)}

\* C17. FCFS per event: when requests A then B for the same event were
\* queued in that order, the worker has not started on B (no processing
\* status written for B, no booking call made for B) unless the processing
\* of A has completed: the message of A was deleted, after a success if it
\* could be decoded, however many attempts that took.
C17_FCFSPerEvent ==
    \A i \in 1..Len(sent), j \in 1..Len(sent) :
        (i < j /\ sent[i].event_id = sent[j].event_id /\ Started(sent[j].request_id)) =>
            /\ sent[i].request_id \notin Queued
            /\ sent[i].kind # "undecodable" => sent[i].request_id \in completed_requests

\* C17 witness: the worker has started on the second request for the event
\* after the first one completed on its second attempt.
C17_Witness ==
    /\ Len(sent) = 2 /\ sent[1].event_id = sent[2].event_id
    /\ wpc = "book" /\ Message.request_id = 2
    /\ 1 \in completed_requests
    /\ Cardinality({c \in Clients : origin[c] = 1}) = 2

\* The booking-engine requests made for the queued request whose seat
\* decrement was applied.
ReservesFor(request_id) == {c \in Clients : origin[c] = request_id /\ hist[c].decremented}

\* C18. Redelivery of a message does not produce duplicate processing: for
\* each request_id the booking step reserves seats and creates a Booking at
\* most once, however many times the message is delivered.
C18_NoDuplicateProcessing ==
    \A request_id \in 1..NumMessages : Cardinality(ReservesFor(request_id)) <= 1

\* The place of a status in the order queued, processing, completed or
\* failed.
StatusRank(status) ==
    CASE status = "queued" -> 1
      [] status = "processing" -> 2
      [] status \in {"completed", "failed"} -> 3

\* The changes of a recorded status that move forward, and the retry of a
\* failed request.
StatusStep(old, new) ==
    \/ old = new
    \/ StatusRank(new) > StatusRank(old)
    \/ old = "failed" /\ new \in {"processing", "completed"}

\* C19. The status recorded for a request_id only moves forward (queued,
\* processing, then completed or failed), except that a failed request may
\* go back to processing on a retry; a request recorded as completed never
\* afterwards shows processing or failed, and a record is never removed.
C19_StatusMonotonic ==
    [][\A request_id \in 1..NumMessages :
          Present(status_table, request_id) =>
              /\ Present(status_table', request_id)
              /\ StatusStep(status_table[request_id].status,
                            status_table'[request_id].status)]_vars

\* The worker ends an attempt for a well-formed message that failed.
FailedAttempt ==
    /\ wpc = "record" /\ wpc' # "record"
    /\ Message.kind = "request"
    /\ ~wlocal.result.success

\* The status record of a failed attempt.
FailedRecord(error) == [status |-> "failed", data |-> NoData, error |-> error]

\* The message of the request is in the queue q and not in the batch the
\* worker holds: the queue can deliver it.
Deliverable(q, batch, request_id) ==
    /\ \E i \in 1..Len(q) : q[i].request_id = request_id
    /\ \A k \in 1..Len(batch) : batch[k].request_id # request_id

PoisonDelivery ==
    /\ wpc = "decode" /\ wpc' # "decode"
    /\ Message.kind = "undecodable"

\* The messages sent whose body is no JSON.
Poison == {i \in 1..Len(sent) : sent[i].kind = "undecodable"}

RecordedStatus(t, request_id) ==
    IF Present(t, request_id) THEN t[request_id].status ELSE ""

\* The decodable messages sent.
Decodable == {i \in 1..Len(sent) : sent[i].kind # "undecodable"}

\* C22. For a well-formed message the recorded status is processing when
\* the worker calls the booking engine; status completed, with the booking
\* and the payment, is written only after the booking call and the
\* payment-intent call succeeded; and a decodable message is deleted only
\* when completed was written: never while its last recorded status is
\* processing or failed.
C22_StatusOrder ==
    /\ [][\A c \in Clients :
             origin'[c] # origin[c] =>
                 RecordedStatus(status_table, origin'[c]) = "processing"]_vars
    /\ [][\A i \in Decodable :
             LET request_id == sent[i].request_id IN
             (RecordedStatus(status_table', request_id) = "completed"
                /\ (Present(status_table, request_id) =>
                       status_table'[request_id] # status_table[request_id])) =>
                 /\ wlocal.result.success
                 /\ status_table'[request_id].data.booking_id = wlocal.result.booking_id
                 /\ status_table'[request_id].data.payment_id = wlocal.result.payment_id
                 /\ Present(bookings, wlocal.result.booking_id)
                 /\ origin[wlocal.result.booking_id] = request_id
                 /\ [payment_id |-> wlocal.result.payment_id,
                     booking_id |-> wlocal.result.booking_id] \in stripe_intents]_vars
    /\ [][\A i \in Decodable :
             LET request_id == sent[i].request_id IN
             (request_id \in Queued
                /\ ~(\E k \in 1..Len(queue') : queue'[k].request_id = request_id)) =>
                 RecordedStatus(status_table, request_id) = "completed"]_vars

\* C23. For the same request fields, the worker and the synchronous path
\* send the same booking request (event, num_tickets, user_id and the
\* optional seats) and the same payment-intent request, and reach the same
\* outcome (success, or failure at the same step).
C23_SamePath ==
    (path_sync.done /\ path_worker.done) =>
        /\ path_sync.url = path_worker.url
        /\ path_sync.booking_request = path_worker.booking_request
        /\ path_sync.payment_request = path_worker.payment_request
        /\ path_sync.outcome = path_worker.outcome

\* A status poll is answered from the table (the store answered get_item).
PollAnswered ==
    poll_resp' # poll_resp /\ poll_resp'.code \notin {500, 503}

\* C24. Polling a request_id answers 404 with status not_found exactly
\* when no status record exists for it, and otherwise 200 with the recorded
\* status, its data and, for a request recorded as failed, its error
\* string.
C24_PollAnswersRecord ==
    [][PollAnswered =>
          LET request_id == poll_resp'.request_id IN
          IF ~Present(status_table, request_id)
          THEN poll_resp'.code = 404 /\ poll_resp'.status = "not_found"
          ELSE /\ poll_resp'.code = 200
               /\ poll_resp'.status = status_table[request_id].status
               /\ poll_resp'.data = status_table[request_id].data
               /\ status_table[request_id].status = "failed" =>
                     /\ "error" \in DOMAIN poll_resp'
                     /\ poll_resp'.error = status_table[request_id].error]_vars

\* C25. A status record exists from the moment the request is queued: a
\* poll for a request that is in the queue and that the worker has not
\* started on answers 200 with status queued, never not_found.
C25_QueuedVisible ==
    [][PollAnswered =>
          LET request_id == poll_resp'.request_id IN
          (request_id \in Queued /\ ~Started(request_id)) =>
              poll_resp'.code = 200 /\ poll_resp'.status = "queued"]_vars

\* A step of verify-intent: the handler has answered.
VerifyStep == (pay_resp' # pay_resp \/ payments' # payments) /\ pay_resp'.op = "verify"

\* The records of the payments table with the payment id.
RecordsOf(table, payment_id) == {i \in table : i.payment_id = payment_id}

C27_VerifyRejectsUnpaid ==
    [][VerifyStep
       => /\ (pay_resp'.payment_id = 0 \/ pay_resp'.booking_id = 0)
                => (pay_resp'.status = 400 /\ payments' = payments)
          /\ (/\ pay_resp'.booking_id # 0
              /\ pay_resp'.payment_id \in CreatedIds \ succeeded
              /\ pay_resp'.status # 500)
                => pay_resp'.status = 400
          /\ pay_resp'.payment_id \notin succeeded => payments' = payments]_vars

\* C27 witness: a verification of an intent that waits for its payment was
\* answered 400 while the table holds the record of another payment.
C27_Witness ==
    /\ pay_resp.op = "verify"
    /\ pay_resp.status = 400
    /\ pay_resp.booking_id # 0
    /\ pay_resp.payment_id \in CreatedIds \ succeeded
    /\ payments # {}

\* A step of the refund route: the handler has answered.
RefundStep == (pay_resp' # pay_resp \/ payments' # payments) /\ pay_resp'.op = "refund"

\* The records of the payments table for the booking.
RecordsFor(table, booking_id) == {i \in table : i.booking_id = booking_id}

\* C28: an authorized refund for a booking with a record in the payments
\* table asks the processor to refund the payment id of that record and,
\* unless the processor or the store fails, answers 200 and leaves no
\* record of the booking; for a booking with no record it answers 404,
\* requests no refund and deletes nothing.
C28_RefundFindsRecord ==
    [][(RefundStep /\ IsBearer(pay_resp'.auth))
       => IF RecordsFor(payments, pay_resp'.booking_id) # {}
          THEN pay_resp'.status \notin {400, 500}
                 => /\ pay_resp'.status = 200
                    /\ \E f \in refunds' \ refunds :
                          \E i \in RecordsFor(payments, pay_resp'.booking_id) :
                              f.payment_intent = i.payment_id
                    /\ RecordsFor(payments', pay_resp'.booking_id) = {}
          ELSE /\ pay_resp'.status = 404
               /\ refunds' = refunds
               /\ payments' = payments]_vars

\* The status of the record of the payment id.
StatusOf(table, payment_id) == (CHOOSE i \in RecordsOf(table, payment_id) : TRUE).status

\* C29: every record of the payments table has status pending or
\* completed; the status of a record changes only from pending to
\* completed, in a verification answered 200 for its payment id; and an
\* authorized refund that the processor and the store do not fail leaves
\* no record of the booking.
C29_RecordLifecycle ==
    /\ [](\A i \in payments : i.status \in {"pending", "completed"})
    /\ [][\A payment_id \in 1..NumIntents :
            (/\ RecordsOf(payments, payment_id) # {}
             /\ RecordsOf(payments', payment_id) # {}
             /\ StatusOf(payments', payment_id) # StatusOf(payments, payment_id))
            => /\ StatusOf(payments, payment_id) = "pending"
               /\ StatusOf(payments', payment_id) = "completed"
               /\ VerifyStep
               /\ pay_resp'.payment_id = payment_id
               /\ pay_resp'.status = 200]_vars
    /\ [][(/\ RefundStep
            /\ IsBearer(pay_resp'.auth)
            /\ pay_resp'.status \notin {400, 500})
           => RecordsFor(payments', pay_resp'.booking_id) = {}]_vars

\* C30: a refund request whose Authorization header is missing or is not
\* of the form 'Bearer ...' is answered 401; no refund is requested from
\* the processor and the payments table is unchanged.
C30_RefundNeedsBearer ==
    [][(RefundStep /\ ~IsBearer(pay_resp'.auth))
       => /\ pay_resp'.status = 401
          /\ refunds' = refunds
          /\ payments' = payments]_vars

\* C30 witness: a refund with a header of another scheme was answered 401
\* for a booking whose payment is on record.
C30_Witness ==
    /\ pay_resp.op = "refund"
    /\ pay_resp.auth = "Basic abc"
    /\ pay_resp.status = 401
    /\ RecordsFor(payments, pay_resp.booking_id) # {}
    /\ refunds = {}

Restores(booking_id) ==
    {c \in Clients : req[c].op = "cancel" /\ req[c].booking_id = booking_id
                     /\ hist[c].incremented}

\* C32: the seats of a booking are restored to its event at most once: at
\* most one cancel request per booking_id has its increment applied, and
\* total_seats of an event never exceeds the capacity of the event.
C32_RestoredAtMostOnce ==
    /\ \A booking_id \in BookingIds : Cardinality(Restores(booking_id)) <= 1
    /\ \A e \in DOMAIN capacity : Present(events, e) => events[e] <= capacity[e]

\* The identity headers of the downstream call.
SentIdentity == {h \in proxy_call.headers : h[1] \in IdentityHeaders}

\* C33: the identity headers of a downstream call of the generic proxy are
\* made from the verified claims of the caller only: apart from them the
\* call carries nothing but the Authorization header of the request, an
\* identity header holds the sub or the groups of the verified token, and
\* without identity verification no identity header is sent.
C33_IdentityFromClaims ==
    proxy_call.made =>
        /\ \A h \in proxy_call.headers \ SentIdentity :
              h = <<"Authorization", proxy_req.token>>
        /\ \A h \in SentIdentity :
              /\ verifier
              /\ Verify(proxy_req.token).ok
              /\ h[1] = "X-User-Id" => h[2] = Verify(proxy_req.token).sub
              /\ h[1] = "X-User-Roles" => h[2] = Verify(proxy_req.token).groups
        /\ ~verifier => SentIdentity = {}

\* C33 witness: a verified user who forged the identity headers of an
\* admin was forwarded with the identity of its own token.
C33_Witness ==
    /\ proxy_call.made
    /\ proxy_req.forged
    /\ proxy_req.token = "user"
    /\ <<"X-User-Id", "sub-user">> \in proxy_call.headers

\* The messages sent that decode as JSON and can never succeed: an object
\* without a required field, and a value that is no object.
Hopeless == {i \in 1..Len(sent) : sent[i].kind \in {"incomplete", "not_object"}}

\* The worker ends a delivery of a message that can never succeed.
HopelessDelivery ==
    /\ wbatch # <<>>
    /\ Message.kind \in {"incomplete", "not_object"}
    /\ wbatch' # wbatch

\* C34: a message that decodes as JSON and can never succeed is never
\* deleted: it stays in the queue, no booking or payment call is made for
\* it and it is never recorded as completed; when a delivery of it ends the
\* queue can deliver it again.
C34_HopelessKept ==
    /\ [](\A i \in Hopeless :
             /\ sent[i].request_id \in Queued
             /\ \A c \in Clients : origin[c] # sent[i].request_id
             /\ sent[i].request_id \notin completed_requests
             /\ RecordedStatus(status_table, sent[i].request_id) # "completed")
    /\ [][HopelessDelivery =>
             /\ queue' = queue
             /\ stripe_intents' = stripe_intents
             /\ Deliverable(queue', wbatch', Message.request_id)]_vars

\* C34 witness: a message without a required field, recorded as failed by
\* an earlier delivery, has been delivered again.
C34_Witness ==
    /\ wpc = "decode"
    /\ Message.kind = "incomplete"
    /\ RecordedStatus(status_table, Message.request_id) = "failed"
    /\ \E i \in 1..Len(queue) : queue[i].kind = "not_object"

\* The booking call and the payment call of an attempt for the request
\* have succeeded.
AttemptSucceeded(request_id) ==
    /\ wpc = "record"
    /\ Message.request_id = request_id
    /\ Message.kind = "request"
    /\ wlocal.result.success

\* C35: under fair scheduling of the worker, once the booking call and the
\* payment call of a well-formed request have succeeded, the request
\* eventually has status completed and its message is no longer in the
\* queue.
C35_EventuallyCompleted ==
    \A request_id \in 1..NumMessages :
        AttemptSucceeded(request_id)
            ~> (/\ RecordedStatus(status_table, request_id) = "completed"
                /\ request_id \notin Queued)

\* The calls to the booking engine and to the payment service are those of
\* the state before the step.
NoServiceCall == origin' = origin /\ req' = req /\ stripe_intents' = stripe_intents

\* C36: what the worker does with a message does not depend on whether a
\* status write succeeds. After the write of processing the worker goes on
\* to the booking call with the message kept; after the write of completed
\* it goes on to delete the message; after the write of failed it leaves
\* the message in the queue and goes on with the next one. The steps that
\* write a status make no call to the booking engine or the payment service.
C36_StatusWriteFrame ==
    [][/\ (wpc = "decode" /\ wpc' # wpc /\ Message.kind \in {"request", "incomplete"})
          => /\ wpc' = "book"
             /\ queue' = queue /\ wbatch' = wbatch /\ wlocal' = wlocal
             /\ NoServiceCall
       /\ (wpc = "record" /\ wpc' # wpc)
          => /\ queue' = queue
             /\ completed_requests' = completed_requests
             /\ NoServiceCall
             /\ IF wlocal.result.success
                THEN wpc' = "delete" /\ wbatch' = wbatch /\ wlocal' = wlocal
                ELSE wpc' = "poll" /\ wbatch' = Tail(wbatch)]_vars

\* C36 witness: the message of a request was deleted after its success
\* although no status write for the request went through.
C36_Witness ==
    \E request_id \in completed_requests :
        /\ ~Present(status_table, request_id)
        /\ \E c \in Clients : origin[c] = request_id /\ hist[c].decremented

AdminStep == admin_resp' # admin_resp \/ admin_ops' # admin_ops

\* The route of the request was entered: the decorator did not refuse it.
Entered(response) == response.status \notin {401, 403}

====
